---- MODULE Spec2Model ----
(***************************************************************************)
(* Narrativa game state engine (src/app/lib/store.ts): the zustand store   *)
(* with its character, combat and world handlers, the deferred enemy       *)
(* retaliation scheduled by attackEnemy, and the localStorage save slot.   *)
(*                                                                         *)
(* A handler is an operator from the store (a record with the fields of    *)
(* GameState) to the store it leaves behind, so that a handler calling     *)
(* another one through get() composes the way the code does, and a         *)
(* `const { character } = get()` taken at the top of a handler stays the   *)
(* value it was when a later set() spreads it.                             *)
(***************************************************************************)
EXTENDS Integers, Sequences, FiniteSets, TLC

VARIABLES
    character,         \* GameState.character (NULL or a Character)
    currentLocation,   \* GameState.currentLocation (NULL or a Location)
    gameLog,           \* GameState.gameLog
    quests,            \* GameState.quests
    combat,            \* GameState.combat (NULL or a CombatState)
    visitedLocations,  \* GameState.visitedLocations
    gameTime,          \* GameState.gameTime
    timers,            \* number of retaliation callbacks setTimeout holds
    storage,           \* localStorage item 'rpg_save' (NULL or the JSON text)
    catalog,           \* the module-level `locations` record
    isLoading,         \* GameInterface: the isLoading state
    currentNarrative,  \* GameInterface: the currentNarrative state
    pending,           \* GameInterface: the narrative call a handler awaits
    rendered,          \* GameInterface: the [character, currentLocation] the effect last ran with
    initial,           \* GameInterface: the requests of loadInitialNarrative in flight
    appended,          \* history: the commands so far that appended to the log
    saved,             \* history: the session the save slot was written from
    last               \* history: the last command issued, with its inputs

vars == <<character, currentLocation, gameLog, quests, combat,
          visitedLocations, gameTime, timers, storage, catalog,
          isLoading, currentNarrative, pending, rendered, initial,
          appended, saved, last>>

\* the state of the GameInterface component
interface == <<isLoading, currentNarrative, pending, rendered, initial>>

\* null, and the undefined of a failed lookup
NULL == [null |-> TRUE]

----------------------------------------------------------------------------
(* Bounds of the model *)

\* the most commands that append to the game log
MaxLog == 2
\* the most items the addItem command lets the inventory hold
MaxInventory == 2
\* the save command is issued while the game log is no longer than this
MaxSaveLog == 0
\* the most retaliation callbacks pending at once
MaxTimers == 1
\* the largest strength and dexterity updateCharacterStats is called with
MaxStat == 3
MaxRequests == 1

----------------------------------------------------------------------------
(* Math helpers *)

\* a faulty variant of Min: the cap is not applied
MinUncapped(a, b) == a

Min(a, b) == IF a <= b THEN a ELSE b
Max(a, b) == IF a >= b THEN a ELSE b

\* Math.floor(x * 1.5) for an integer x
FloorOneAndHalf(x) == (3 * x) \div 2

\* a faulty variant of the floor: the product rounded to the nearest integer
FloorOnePointTwoRounded(x) == (6 * x + 2) \div 5

\* Math.floor(x * 1.2) for an integer x (the double product rounds to the
\* integer whenever 6x/5 is one, so the floor is the exact one)
FloorOnePointTwo(x) == (6 * x) \div 5

----------------------------------------------------------------------------
(* Types: the values the commands are issued with *)

CharacterClass == {"Warrior", "Mage", "Rogue", "Cleric"}

Effect(type, target, amount) == [type |-> type, target |-> target, amount |-> amount]

\* Item: id, usable and effects are the fields the engine reads
Item(id, usable, effects) == [id |-> id, usable |-> usable, effects |-> effects]

potion == Item("potion", TRUE, <<Effect("heal", "self", 20)>>)
elixir == Item("elixir", TRUE, <<Effect("heal", "self", 5), Effect("heal", "self", 10)>>)
bomb   == Item("bomb", TRUE, <<Effect("damage", "enemy", 8)>>)
\* an entry that shares the potion's id and cannot be used
relic  == Item("potion", FALSE, <<>>)

Items == {potion, elixir, bomb, relic}
ItemIds == {"potion", "elixir", "bomb", "absent"}

Enemy(id, health, strength, drops, experience, gold) ==
    [id |-> id, health |-> health, maxHealth |-> health,
     stats |-> [strength |-> strength, dexterity |-> 2, constitution |-> 2],
     drops |-> drops, experience |-> experience, gold |-> gold]

wolf1 ==
    [id |-> "wolf1", health |-> 15, maxHealth |-> 15,
     stats |-> [strength |-> 3, dexterity |-> 4, constitution |-> 2],
     drops |-> <<>>, experience |-> 10, gold |-> 0]

skeleton1 ==
    [id |-> "skeleton1", health |-> 20, maxHealth |-> 20,
     stats |-> [strength |-> 4, dexterity |-> 2, constitution |-> 3],
     drops |-> <<>>, experience |-> 20, gold |-> 5]

\* the world catalog; an absent `enemies` field reads as the empty list
locations ==
    [village    |-> [id |-> "village", connections |-> <<"forest", "tavern", "blacksmith">>,
                     enemies |-> <<>>],
     tavern     |-> [id |-> "tavern", connections |-> <<"village">>, enemies |-> <<>>],
     forest     |-> [id |-> "forest", connections |-> <<"village", "ruins">>,
                     enemies |-> <<wolf1>>],
     blacksmith |-> [id |-> "blacksmith", connections |-> <<"village">>, enemies |-> <<>>],
     ruins      |-> [id |-> "ruins", connections |-> <<"forest", "crypt">>, enemies |-> <<>>],
     crypt      |-> [id |-> "crypt", connections |-> <<"ruins">>, enemies |-> <<skeleton1>>]]

----------------------------------------------------------------------------
(* Pure helpers of the store *)

\* a faulty variant of getBaseStats: the Cleric falls through to the default
getBaseStatsNoCleric(characterClass) ==
    CASE characterClass = "Warrior" ->
           [strength |-> 8, dexterity |-> 5, constitution |-> 7,
            intelligence |-> 3, wisdom |-> 4, charisma |-> 5]
      [] characterClass = "Mage" ->
           [strength |-> 3, dexterity |-> 4, constitution |-> 4,
            intelligence |-> 8, wisdom |-> 7, charisma |-> 6]
      [] characterClass = "Rogue" ->
           [strength |-> 5, dexterity |-> 8, constitution |-> 5,
            intelligence |-> 6, wisdom |-> 4, charisma |-> 6]
      [] OTHER ->
           [strength |-> 5, dexterity |-> 5, constitution |-> 5,
            intelligence |-> 5, wisdom |-> 5, charisma |-> 5]

\* getBaseStats: the base stat table of a class
getBaseStats(characterClass) ==
    CASE characterClass = "Warrior" ->
           [strength |-> 8, dexterity |-> 5, constitution |-> 7,
            intelligence |-> 3, wisdom |-> 4, charisma |-> 5]
      [] characterClass = "Mage" ->
           [strength |-> 3, dexterity |-> 4, constitution |-> 4,
            intelligence |-> 8, wisdom |-> 7, charisma |-> 6]
      [] characterClass = "Rogue" ->
           [strength |-> 5, dexterity |-> 8, constitution |-> 5,
            intelligence |-> 6, wisdom |-> 4, charisma |-> 6]
      [] characterClass = "Cleric" ->
           [strength |-> 5, dexterity |-> 4, constitution |-> 6,
            intelligence |-> 5, wisdom |-> 8, charisma |-> 7]
      [] OTHER ->
           [strength |-> 5, dexterity |-> 5, constitution |-> 5,
            intelligence |-> 5, wisdom |-> 5, charisma |-> 5]

\* a faulty variant of calculateDamage: the attack is taken for a ranged one
calculateDamageRanged(strength, dexterity, isRanged, roll) ==
    FloorOneAndHalf(dexterity) + roll

\* calculateDamage; roll is Math.floor(Math.random() * 4)
calculateDamage(strength, dexterity, isRanged, roll) ==
    LET baseDamage == IF isRanged THEN dexterity ELSE strength
    IN  FloorOneAndHalf(baseDamage) + roll

\* the values Math.floor(Math.random() * 4) takes
Rolls == 0 .. 3

\* Array.prototype.findIndex by id: the first index, 0 when there is none
findIndex(seq, id) ==
    IF \E i \in 1 .. Len(seq) : seq[i].id = id
    THEN CHOOSE i \in 1 .. Len(seq) :
            /\ seq[i].id = id
            /\ \A j \in 1 .. (i - 1) : seq[j].id # id
    ELSE 0

\* a faulty variant of includes: nothing is ever found
includesNothing(seq, x) == FALSE

\* Array.prototype.includes
includes(seq, x) == \E i \in 1 .. Len(seq) : seq[i] = x

\* a faulty variant of statGrowth: the Rogue grows in constitution, not charisma
statGrowthRogueConstitution(class, stats) ==
    CASE class = "Warrior" ->
           [stats EXCEPT !.strength = @ + 2, !.constitution = @ + 1]
      [] class = "Mage" ->
           [stats EXCEPT !.intelligence = @ + 2, !.wisdom = @ + 1]
      [] class = "Rogue" ->
           [stats EXCEPT !.dexterity = @ + 2, !.constitution = @ + 1]
      [] class = "Cleric" ->
           [stats EXCEPT !.wisdom = @ + 2, !.constitution = @ + 1]
      [] OTHER -> stats

\* the level-up growth of gainExperience
statGrowth(class, stats) ==
    CASE class = "Warrior" ->
           [stats EXCEPT !.strength = @ + 2, !.constitution = @ + 1]
      [] class = "Mage" ->
           [stats EXCEPT !.intelligence = @ + 2, !.wisdom = @ + 1]
      [] class = "Rogue" ->
           [stats EXCEPT !.dexterity = @ + 2, !.charisma = @ + 1]
      [] class = "Cleric" ->
           [stats EXCEPT !.wisdom = @ + 2, !.constitution = @ + 1]
      [] OTHER -> stats

----------------------------------------------------------------------------
(* JSON: the text of a value is the sequence of its fields in the order    *)
(* JSON.stringify writes them; parsing reads the fields back by position.   *)

stringifyEffect(f) == <<f.type, f.target, f.amount>>
parseEffect(t) == [type |-> t[1], target |-> t[2], amount |-> t[3]]

stringifyItem(i) ==
    <<i.id, i.usable, [k \in 1 .. Len(i.effects) |-> stringifyEffect(i.effects[k])]>>
parseItem(t) ==
    [id |-> t[1], usable |-> t[2],
     effects |-> [k \in 1 .. Len(t[3]) |-> parseEffect(t[3][k])]]

stringifyItems(items) == [k \in 1 .. Len(items) |-> stringifyItem(items[k])]
parseItems(t) == [k \in 1 .. Len(t) |-> parseItem(t[k])]

stringifyEnemy(e) ==
    <<e.id, e.health, e.maxHealth,
      <<e.stats.strength, e.stats.dexterity, e.stats.constitution>>,
      stringifyItems(e.drops), e.experience, e.gold>>
parseEnemy(t) ==
    [id |-> t[1], health |-> t[2], maxHealth |-> t[3],
     stats |-> [strength |-> t[4][1], dexterity |-> t[4][2], constitution |-> t[4][3]],
     drops |-> parseItems(t[5]), experience |-> t[6], gold |-> t[7]]

stringifyEnemies(enemies) == [k \in 1 .. Len(enemies) |-> stringifyEnemy(enemies[k])]
parseEnemies(t) == [k \in 1 .. Len(t) |-> parseEnemy(t[k])]

\* a faulty variant of the copy: the drops of the enemies are left behind
deepCopyWithoutDrops(enemies) ==
    [k \in DOMAIN enemies |-> [enemies[k] EXCEPT !.drops = <<>>]]

\* JSON.parse(JSON.stringify(enemies)) of startCombat
deepCopy(enemies) == parseEnemies(stringifyEnemies(enemies))

----------------------------------------------------------------------------
(* The store and its handlers *)

\* get(): the store as one record
State ==
    [character |-> character, currentLocation |-> currentLocation,
     gameLog |-> gameLog, quests |-> quests, combat |-> combat,
     visitedLocations |-> visitedLocations, gameTime |-> gameTime]

\* the store after create(): "Initial state"
initialState ==
    [character |-> NULL, currentLocation |-> NULL, gameLog |-> <<>>,
     quests |-> <<>>, combat |-> NULL, visitedLocations |-> <<>>, gameTime |-> 0]

\* a faulty variant of addToGameLog: the new entry replaces the log
addToGameLogAlone(s, text, type) ==
    [s EXCEPT !.gameLog = <<[text |-> text, type |-> type]>>]

\* addToGameLog: text is the message with its parameters left out; the uuid
\* and the timestamp of an entry are not modelled
addToGameLog(s, text, type) ==
    [s EXCEPT !.gameLog = Append(@, [text |-> text, type |-> type])]

\* createNewCharacter; the id, name, description, relic and abilities of a
\* character are read by no handler and are left out
createNewCharacter(s, characterClass) ==
    LET baseStats == getBaseStats(characterClass)
        initialHealth == 20 + baseStats.constitution * 5
        initialMana == baseStats.intelligence * 10
        newCharacter ==
            [class |-> characterClass, level |-> 1, experience |-> 0,
             health |-> initialHealth, maxHealth |-> initialHealth,
             mana |-> initialMana, maxMana |-> initialMana,
             inventory |-> <<>>, stats |-> baseStats, gold |-> 10]
    IN  [s EXCEPT !.character = newCharacter]

\* updateCharacterStats; stats is a Partial: a record of some of the stats
updateCharacterStats(s, stats) ==
    IF s.character = NULL THEN s
    ELSE [s EXCEPT !.character.stats =
              [n \in DOMAIN @ |-> IF n \in DOMAIN stats THEN stats[n] ELSE @[n]]]

addItemToInventory(s, item) ==
    IF s.character = NULL THEN s
    ELSE [s EXCEPT !.character.inventory = Append(@, item)]

keepsItem(item, itemId) == item.id # itemId

removeItemFromInventory(s, itemId) ==
    IF s.character = NULL THEN s
    ELSE [s EXCEPT !.character.inventory =
              SelectSeq(@, LAMBDA item : keepsItem(item, itemId))]

\* the body of item.effects.forEach in useItem, from effect i on; character
\* is the constant useItem read before the loop
RECURSIVE applyEffects(_, _, _, _)
applyEffects(s, char, item, i) ==
    IF i > Len(item.effects) THEN s
    ELSE LET effect == item.effects[i]
         IN  IF effect.type = "heal" /\ effect.target = "self"
             THEN LET newHealth == Min(char.health + effect.amount, char.maxHealth)
                      s1 == [s EXCEPT !.character = [char EXCEPT !.health = newHealth]]
                  IN  applyEffects(addToGameLog(s1, "You used an item", "system"),
                                   char, item, i + 1)
             ELSE applyEffects(s, char, item, i + 1)

\* a faulty variant of useItem: the usable flag is not read
useItemAnyItem(s, itemId) ==
    IF s.character = NULL THEN s
    ELSE LET char == s.character
             index == findIndex(char.inventory, itemId)
         IN  IF index = 0 THEN s
             ELSE LET item == char.inventory[index]
                  IN  removeItemFromInventory(applyEffects(s, char, item, 1), itemId)

useItem(s, itemId) ==
    IF s.character = NULL THEN s
    ELSE LET char == s.character
             index == findIndex(char.inventory, itemId)
         IN  IF index = 0 THEN s
             ELSE LET item == char.inventory[index]
                  IN  IF ~item.usable THEN s
                      ELSE removeItemFromInventory(applyEffects(s, char, item, 1), itemId)

gainExperience(s, amount) ==
    IF s.character = NULL THEN s
    ELSE LET char == s.character
             newExperience == char.experience + amount
             experienceToNextLevel == char.level * 100
         IN  IF newExperience >= experienceToNextLevel
             THEN LET newLevel == char.level + 1
                      remainingExperience == newExperience - experienceToNextLevel
                      newStats == statGrowth(char.class, char.stats)
                      newMaxHealth == 20 + newStats.constitution * 5
                      newMaxMana == newStats.intelligence * 10
                      s1 == [s EXCEPT !.character =
                                [char EXCEPT !.level = newLevel,
                                             !.experience = remainingExperience,
                                             !.maxHealth = newMaxHealth,
                                             !.health = newMaxHealth,
                                             !.maxMana = newMaxMana,
                                             !.mana = newMaxMana,
                                             !.stats = newStats]]
                  IN  addToGameLog(s1, "You gained experience and leveled up", "system")
             ELSE addToGameLog([s EXCEPT !.character.experience = newExperience],
                               "You gained experience", "system")

----------------------------------------------------------------------------
(* Combat *)

\* a faulty variant of startCombat: the rounds are counted from 0
startCombatRoundZero(s, enemies) ==
    LET combatState ==
            [inCombat |-> TRUE, enemies |-> deepCopy(enemies),
             playerTurn |-> TRUE, round |-> 0, combatLog |-> <<>>]
    IN  addToGameLog([s EXCEPT !.combat = combatState], "Combat started", "combat")

startCombat(s, enemies) ==
    LET combatState ==
            [inCombat |-> TRUE, enemies |-> deepCopy(enemies),
             playerTurn |-> TRUE, round |-> 1, combatLog |-> <<>>]
    IN  addToGameLog([s EXCEPT !.combat = combatState], "Combat started", "combat")

RECURSIVE sumExperience(_)
sumExperience(enemies) ==
    IF enemies = <<>> THEN 0
    ELSE Head(enemies).experience + sumExperience(Tail(enemies))

RECURSIVE sumGold(_)
sumGold(enemies) ==
    IF enemies = <<>> THEN 0
    ELSE Head(enemies).gold + sumGold(Tail(enemies))

\* enemy.drops.forEach(item => get().addItemToInventory(item))
RECURSIVE addDrops(_, _)
addDrops(s, drops) ==
    IF drops = <<>> THEN s
    ELSE addDrops(addItemToInventory(s, Head(drops)), Tail(drops))

\* the drops part of combat.enemies.forEach in endCombat
RECURSIVE addAllDrops(_, _)
addAllDrops(s, enemies) ==
    IF enemies = <<>> THEN s
    ELSE addAllDrops(addDrops(s, Head(enemies).drops), Tail(enemies))

\* a faulty variant of endCombat: the combat object is not cleared
endCombatKeepsCombat(s) ==
    IF s.combat = NULL \/ s.character = NULL THEN s
    ELSE LET char == s.character
             cmb == s.combat
             totalExperience == sumExperience(cmb.enemies)
             totalGold == sumGold(cmb.enemies)
             s1 == addAllDrops(s, cmb.enemies)
             s2 == gainExperience(s1, totalExperience)
             s3 == [s2 EXCEPT !.character = [char EXCEPT !.gold = char.gold + totalGold]]
         IN  addToGameLog(s3, "Combat ended", "combat")

\* endCombat: `char` and `cmb` are the constants read at its top; the gold
\* set() spreads `char`, not the character the store holds by then
endCombat(s) ==
    IF s.combat = NULL \/ s.character = NULL THEN s
    ELSE LET char == s.character
             cmb == s.combat
             totalExperience == sumExperience(cmb.enemies)
             totalGold == sumGold(cmb.enemies)
             s1 == addAllDrops(s, cmb.enemies)
             s2 == gainExperience(s1, totalExperience)
             s3 == [s2 EXCEPT !.character = [char EXCEPT !.gold = char.gold + totalGold]]
             s4 == addToGameLog(s3, "Combat ended", "combat")
         IN  [s4 EXCEPT !.combat = NULL]

\* a faulty variant of isAlive: an enemy with health 0 is kept
isAliveAtZero(e) == e.health >= 0

\* the filter of remainingEnemies
isAlive(e) == e.health > 0

\* a faulty variant of attackEnemy: the fallen enemy stays in the roster of a
\* combat that goes on
attackEnemyLeavesFallen(s, enemyId, roll) ==
    IF s.combat = NULL \/ s.character = NULL
    THEN [store |-> s, scheduled |-> FALSE]
    ELSE LET char == s.character
             cmb == s.combat
             enemyIndex == findIndex(cmb.enemies, enemyId)
         IN  IF enemyIndex = 0
             THEN [store |-> s, scheduled |-> FALSE]
             ELSE LET enemy == cmb.enemies[enemyIndex]
                      damage == calculateDamage(char.stats.strength,
                                                char.stats.dexterity, FALSE, roll)
                      newEnemyHealth == Max(0, enemy.health - damage)
                      newEnemies == [cmb.enemies EXCEPT
                                        ![enemyIndex] = [enemy EXCEPT !.health = newEnemyHealth]]
                      s1 == [s EXCEPT !.combat =
                                [cmb EXCEPT !.enemies = newEnemies,
                                            !.playerTurn = FALSE,
                                            !.round = IF newEnemyHealth <= 0
                                                      THEN cmb.round
                                                      ELSE cmb.round + 1]]
                      s2 == addToGameLog(s1, "You hit", "combat")
                  IN  IF newEnemyHealth <= 0
                      THEN LET s3 == addToGameLog(s2, "You defeated", "combat")
                               remainingEnemies == SelectSeq(newEnemies, isAlive)
                           IN  IF Len(remainingEnemies) = 0
                               THEN [store |-> endCombat(s3), scheduled |-> FALSE]
                               ELSE [store |-> [s3 EXCEPT !.combat =
                                                   [cmb EXCEPT !.enemies = newEnemies,
                                                               !.playerTurn = TRUE]],
                                     scheduled |-> FALSE]
                      ELSE [store |-> s2, scheduled |-> TRUE]

\* a faulty variant of attackEnemy: the blow lands on every enemy of the roster
attackEnemySweeps(s, enemyId, roll) ==
    IF s.combat = NULL \/ s.character = NULL
    THEN [store |-> s, scheduled |-> FALSE]
    ELSE LET char == s.character
             cmb == s.combat
             enemyIndex == findIndex(cmb.enemies, enemyId)
         IN  IF enemyIndex = 0
             THEN [store |-> s, scheduled |-> FALSE]
             ELSE LET enemy == cmb.enemies[enemyIndex]
                      damage == calculateDamage(char.stats.strength,
                                                char.stats.dexterity, FALSE, roll)
                      newEnemyHealth == Max(0, enemy.health - damage)
                      newEnemies == [k \in DOMAIN cmb.enemies |->
                                        [cmb.enemies[k] EXCEPT
                                            !.health = Max(0, @ - damage)]]
                      s1 == [s EXCEPT !.combat =
                                [cmb EXCEPT !.enemies = newEnemies,
                                            !.playerTurn = FALSE,
                                            !.round = IF newEnemyHealth <= 0
                                                      THEN cmb.round
                                                      ELSE cmb.round + 1]]
                      s2 == addToGameLog(s1, "You hit", "combat")
                  IN  IF newEnemyHealth <= 0
                      THEN LET s3 == addToGameLog(s2, "You defeated", "combat")
                               remainingEnemies == SelectSeq(newEnemies, isAlive)
                           IN  IF Len(remainingEnemies) = 0
                               THEN [store |-> endCombat(s3), scheduled |-> FALSE]
                               ELSE [store |-> [s3 EXCEPT !.combat =
                                                   [cmb EXCEPT !.enemies = remainingEnemies,
                                                               !.playerTurn = TRUE]],
                                     scheduled |-> FALSE]
                      ELSE [store |-> s2, scheduled |-> TRUE]

\* a faulty variant of attackEnemy: a killing blow ends the player's turn
attackEnemyCedesTurn(s, enemyId, roll) ==
    IF s.combat = NULL \/ s.character = NULL
    THEN [store |-> s, scheduled |-> FALSE]
    ELSE LET char == s.character
             cmb == s.combat
             enemyIndex == findIndex(cmb.enemies, enemyId)
         IN  IF enemyIndex = 0
             THEN [store |-> s, scheduled |-> FALSE]
             ELSE LET enemy == cmb.enemies[enemyIndex]
                      damage == calculateDamage(char.stats.strength,
                                                char.stats.dexterity, FALSE, roll)
                      newEnemyHealth == Max(0, enemy.health - damage)
                      newEnemies == [cmb.enemies EXCEPT
                                        ![enemyIndex] = [enemy EXCEPT !.health = newEnemyHealth]]
                      s1 == [s EXCEPT !.combat =
                                [cmb EXCEPT !.enemies = newEnemies,
                                            !.playerTurn = FALSE,
                                            !.round = IF newEnemyHealth <= 0
                                                      THEN cmb.round
                                                      ELSE cmb.round + 1]]
                      s2 == addToGameLog(s1, "You hit", "combat")
                  IN  IF newEnemyHealth <= 0
                      THEN LET s3 == addToGameLog(s2, "You defeated", "combat")
                               remainingEnemies == SelectSeq(newEnemies, isAlive)
                           IN  IF Len(remainingEnemies) = 0
                               THEN [store |-> endCombat(s3), scheduled |-> FALSE]
                               ELSE [store |-> [s3 EXCEPT !.combat =
                                                   [cmb EXCEPT !.enemies = remainingEnemies,
                                                               !.playerTurn = FALSE]],
                                     scheduled |-> FALSE]
                      ELSE [store |-> s2, scheduled |-> TRUE]

\* attackEnemy up to its setTimeout call: the store it leaves, and whether it
\* schedules the retaliation
attackEnemy(s, enemyId, roll) ==
    IF s.combat = NULL \/ s.character = NULL
    THEN [store |-> s, scheduled |-> FALSE]
    ELSE LET char == s.character
             cmb == s.combat
             enemyIndex == findIndex(cmb.enemies, enemyId)
         IN  IF enemyIndex = 0
             THEN [store |-> s, scheduled |-> FALSE]
             ELSE LET enemy == cmb.enemies[enemyIndex]
                      damage == calculateDamage(char.stats.strength,
                                                char.stats.dexterity, FALSE, roll)
                      newEnemyHealth == Max(0, enemy.health - damage)
                      newEnemies == [cmb.enemies EXCEPT
                                        ![enemyIndex] = [enemy EXCEPT !.health = newEnemyHealth]]
                      s1 == [s EXCEPT !.combat =
                                [cmb EXCEPT !.enemies = newEnemies,
                                            !.playerTurn = FALSE,
                                            !.round = IF newEnemyHealth <= 0
                                                      THEN cmb.round
                                                      ELSE cmb.round + 1]]
                      s2 == addToGameLog(s1, "You hit", "combat")
                  IN  IF newEnemyHealth <= 0
                      THEN LET s3 == addToGameLog(s2, "You defeated", "combat")
                               remainingEnemies == SelectSeq(newEnemies, isAlive)
                           IN  IF Len(remainingEnemies) = 0
                               THEN [store |-> endCombat(s3), scheduled |-> FALSE]
                               ELSE [store |-> [s3 EXCEPT !.combat =
                                                   [cmb EXCEPT !.enemies = remainingEnemies,
                                                               !.playerTurn = TRUE]],
                                     scheduled |-> FALSE]
                      ELSE [store |-> s2, scheduled |-> TRUE]

RECURSIVE sumEnemyDamage(_)
sumEnemyDamage(enemies) ==
    IF enemies = <<>> THEN 0
    ELSE Max(1, FloorOnePointTwo(Head(enemies).stats.strength))
         + sumEnemyDamage(Tail(enemies))

\* a faulty variant of the callback: it does not look at the combat object
\* again, and reports the attack of an empty roster when the combat is gone
enemyTurnUnguarded(s) ==
    IF s.character = NULL THEN s
    ELSE LET char == s.character
             cmb == s.combat
             totalDamage == IF cmb = NULL THEN 0 ELSE sumEnemyDamage(cmb.enemies)
             newHealth == Max(0, char.health - totalDamage)
             s1 == [s EXCEPT !.character = [char EXCEPT !.health = newHealth],
                             !.combat = IF cmb = NULL THEN NULL
                                        ELSE [cmb EXCEPT !.playerTurn = TRUE]]
             s2 == addToGameLog(s1, "Enemies attack", "combat")
         IN  IF newHealth <= 0
             THEN addToGameLog(s2, "You have been defeated", "system")
             ELSE s2

\* a faulty variant of the callback: the defeat of the character ends the
\* combat
enemyTurnEndsCombat(s) ==
    IF s.combat = NULL \/ s.character = NULL THEN s
    ELSE LET char == s.character
             cmb == s.combat
             totalDamage == sumEnemyDamage(cmb.enemies)
             newHealth == Max(0, char.health - totalDamage)
             s1 == [s EXCEPT !.character = [char EXCEPT !.health = newHealth],
                             !.combat = [cmb EXCEPT !.playerTurn = TRUE]]
             s2 == addToGameLog(s1, "Enemies attack", "combat")
         IN  IF newHealth <= 0
             THEN [addToGameLog(s2, "You have been defeated", "system")
                      EXCEPT !.combat = NULL]
             ELSE s2

\* the callback attackEnemy hands to setTimeout
enemyTurn(s) ==
    IF s.combat = NULL \/ s.character = NULL THEN s
    ELSE LET char == s.character
             cmb == s.combat
             totalDamage == sumEnemyDamage(cmb.enemies)
             newHealth == Max(0, char.health - totalDamage)
             s1 == [s EXCEPT !.character = [char EXCEPT !.health = newHealth],
                             !.combat = [cmb EXCEPT !.playerTurn = TRUE]]
             s2 == addToGameLog(s1, "Enemies attack", "combat")
         IN  IF newHealth <= 0
             THEN addToGameLog(s2, "You have been defeated", "system")
             ELSE s2

----------------------------------------------------------------------------
(* World *)

\* a faulty variant of moveToLocation: from a current location the move
\* goes along its connections only
moveToLocationAlongConnections(s, locs, locationId, randomRoll) ==
    IF locationId \notin DOMAIN locs THEN s
    ELSE IF /\ s.currentLocation # NULL
            /\ ~includes(s.currentLocation.connections, locationId)
    THEN s
    ELSE LET location == locs[locationId]
             newVisitedLocations ==
                 IF includes(s.visitedLocations, locationId)
                 THEN s.visitedLocations
                 ELSE Append(s.visitedLocations, locationId)
             hasEnemies == Len(location.enemies) > 0
             randomEncounter == hasEnemies /\ randomRoll
             s1 == [s EXCEPT !.currentLocation = location,
                             !.visitedLocations = newVisitedLocations]
             s2 == addToGameLog(s1, "You have moved", "narrative")
         IN  IF randomEncounter THEN startCombat(s2, location.enemies) ELSE s2

\* a faulty variant of moveToLocation: a move without encounter ends the
\* combat
moveToLocationEndsCombat(s, locs, locationId, randomRoll) ==
    IF locationId \notin DOMAIN locs THEN s
    ELSE LET location == locs[locationId]
             newVisitedLocations ==
                 IF includes(s.visitedLocations, locationId)
                 THEN s.visitedLocations
                 ELSE Append(s.visitedLocations, locationId)
             hasEnemies == Len(location.enemies) > 0
             randomEncounter == hasEnemies /\ randomRoll
             s1 == [s EXCEPT !.currentLocation = location,
                             !.visitedLocations = newVisitedLocations]
             s2 == addToGameLog(s1, "You have moved", "narrative")
         IN  IF randomEncounter THEN startCombat(s2, location.enemies)
             ELSE [s2 EXCEPT !.combat = NULL]

\* a faulty variant of moveToLocation: the encounter does not wait for the
\* location to have enemies
moveToLocationAnyEncounter(s, locs, locationId, randomRoll) ==
    IF locationId \notin DOMAIN locs THEN s
    ELSE LET location == locs[locationId]
             newVisitedLocations ==
                 IF includes(s.visitedLocations, locationId)
                 THEN s.visitedLocations
                 ELSE Append(s.visitedLocations, locationId)
             s1 == [s EXCEPT !.currentLocation = location,
                             !.visitedLocations = newVisitedLocations]
             s2 == addToGameLog(s1, "You have moved", "narrative")
         IN  IF randomRoll THEN startCombat(s2, location.enemies) ELSE s2

\* a faulty variant of moveToLocation: an encounter met during a combat goes
\* on with the roster of that combat
moveToLocationKeepsRoster(s, locs, locationId, randomRoll) ==
    IF locationId \notin DOMAIN locs THEN s
    ELSE LET location == locs[locationId]
             newVisitedLocations ==
                 IF includes(s.visitedLocations, locationId)
                 THEN s.visitedLocations
                 ELSE Append(s.visitedLocations, locationId)
             hasEnemies == Len(location.enemies) > 0
             randomEncounter == hasEnemies /\ randomRoll
             s1 == [s EXCEPT !.currentLocation = location,
                             !.visitedLocations = newVisitedLocations]
             s2 == addToGameLog(s1, "You have moved", "narrative")
         IN  IF randomEncounter
             THEN startCombat(s2, IF s.combat = NULL THEN location.enemies
                                  ELSE s.combat.enemies)
             ELSE s2

\* the keys every object literal answers to besides its own: the methods it
\* inherits from Object.prototype
ObjectPrototypeMethods ==
    {"constructor", "hasOwnProperty", "isPrototypeOf", "propertyIsEnumerable",
     "toLocaleString", "toString", "valueOf"}

\* such a method: a function, which read as a Location has no id, no
\* connections and no enemies
ObjectMethod == [function |-> TRUE]

\* locations[locationId]: the catalog is an object literal, and the property
\* read finds its own entries, then the inherited methods, and is undefined
\* for every other key
lookup(locs, locationId) ==
    IF locationId \in DOMAIN locs THEN locs[locationId]
    ELSE IF locationId \in ObjectPrototypeMethods THEN ObjectMethod
         ELSE NULL

\* moveToLocation; randomRoll is Math.random() < 0.3
moveToLocation(s, locs, locationId, randomRoll) ==
    IF lookup(locs, locationId) = NULL THEN s
    ELSE LET location == lookup(locs, locationId)
             newVisitedLocations ==
                 IF includes(s.visitedLocations, locationId)
                 THEN s.visitedLocations
                 ELSE Append(s.visitedLocations, locationId)
             hasEnemies == location # ObjectMethod /\ Len(location.enemies) > 0
             randomEncounter == hasEnemies /\ randomRoll
             s1 == [s EXCEPT !.currentLocation = location,
                             !.visitedLocations = newVisitedLocations]
             s2 == addToGameLog(s1, "You have moved", "narrative")
         IN  IF randomEncounter THEN startCombat(s2, location.enemies) ELSE s2

\* a faulty variant of startNewGame: the opening entry is logged before the
\* move
startNewGameOpensFirst(s, locs, randomRoll) ==
    IF s.character = NULL THEN s
    ELSE moveToLocation(addToGameLog(s, "Your adventure begins", "narrative"),
                        locs, "village", randomRoll)

startNewGame(s, locs, randomRoll) ==
    IF s.character = NULL THEN s
    ELSE addToGameLog(moveToLocation(s, locs, "village", randomRoll),
                      "Your adventure begins", "narrative")

----------------------------------------------------------------------------
(* Persistence *)

stringifyCharacter(c) ==
    IF c = NULL THEN <<"null">>
    ELSE <<"object", c.class, c.level, c.experience, c.health, c.maxHealth,
           c.mana, c.maxMana, stringifyItems(c.inventory),
           <<c.stats.strength, c.stats.dexterity, c.stats.constitution,
             c.stats.intelligence, c.stats.wisdom, c.stats.charisma>>,
           c.gold>>
parseCharacter(t) ==
    IF t[1] = "null" THEN NULL
    ELSE [class |-> t[2], level |-> t[3], experience |-> t[4], health |-> t[5],
          maxHealth |-> t[6], mana |-> t[7], maxMana |-> t[8],
          inventory |-> parseItems(t[9]),
          stats |-> [strength |-> t[10][1], dexterity |-> t[10][2],
                     constitution |-> t[10][3], intelligence |-> t[10][4],
                     wisdom |-> t[10][5], charisma |-> t[10][6]],
          gold |-> t[11]]

\* JSON.stringify leaves a property out whose value is a function, and the
\* parsed record then has undefined there
stringifyLocation(l) ==
    IF l = NULL THEN <<"null">>
    ELSE IF l = ObjectMethod THEN <<"undefined">>
         ELSE <<"object", l.id, l.connections, stringifyEnemies(l.enemies)>>
parseLocation(t) ==
    IF t[1] \in {"null", "undefined"} THEN NULL
    ELSE [id |-> t[2], connections |-> t[3], enemies |-> parseEnemies(t[4])]

stringifyLog(log) == [k \in 1 .. Len(log) |-> <<log[k].text, log[k].type>>]
parseLog(t) == [k \in 1 .. Len(t) |-> [text |-> t[k][1], type |-> t[k][2]]]

\* JSON.stringify of the record saveGame builds
stringifySave(s) ==
    [character |-> stringifyCharacter(s.character),
     currentLocation |-> stringifyLocation(s.currentLocation),
     gameLog |-> stringifyLog(s.gameLog),
     quests |-> s.quests,
     visitedLocations |-> s.visitedLocations,
     gameTime |-> s.gameTime]

\* saveGame: what localStorage holds afterwards; setItem throws when the
\* quota is exceeded (stored = FALSE), and the catch leaves the item as it was
saveGame(s, item, stored) == IF stored THEN stringifySave(s) ELSE item

\* a faulty variant of loadGame: loading also leaves the combat
loadGameEndsCombat(s, savedGame) ==
    IF savedGame = NULL THEN s
    ELSE [s EXCEPT !.character = parseCharacter(savedGame.character),
                   !.currentLocation = parseLocation(savedGame.currentLocation),
                   !.gameLog = parseLog(savedGame.gameLog),
                   !.quests = savedGame.quests,
                   !.combat = NULL,
                   !.visitedLocations = savedGame.visitedLocations,
                   !.gameTime = savedGame.gameTime]

\* a faulty variant of loadGame: the visited locations are not restored
loadGameKeepsVisited(s, savedGame) ==
    IF savedGame = NULL THEN s
    ELSE [s EXCEPT !.character = parseCharacter(savedGame.character),
                   !.currentLocation = parseLocation(savedGame.currentLocation),
                   !.gameLog = parseLog(savedGame.gameLog),
                   !.quests = savedGame.quests,
                   !.gameTime = savedGame.gameTime]

\* loadGame, given what localStorage.getItem returns
loadGame(s, savedGame) ==
    IF savedGame = NULL THEN s
    ELSE [s EXCEPT !.character = parseCharacter(savedGame.character),
                   !.currentLocation = parseLocation(savedGame.currentLocation),
                   !.gameLog = parseLog(savedGame.gameLog),
                   !.quests = savedGame.quests,
                   !.visitedLocations = savedGame.visitedLocations,
                   !.gameTime = savedGame.gameTime]

----------------------------------------------------------------------------
(* The narrative collaborator and the free-text form of GameInterface *)

\* the text generateNarrative returns from its outer catch
FallbackNarrative == "The shadows deepen around you as you continue your journey."

\* what model.generateContent does: it resolves with a JSON text, resolves
\* with a text that is no JSON, or rejects
Replies == {"json", "text", "error"}

\* generateNarrative: building the context reads the fields of the character
\* and of the location inside the outer try, so a missing one ends in the
\* outer catch like a rejected request
generateNarrative(context, reply) ==
    IF context.character = NULL \/ context.currentLocation = NULL \/ reply = "error"
    THEN [text |-> FallbackNarrative]
    ELSE IF reply = "json"
         THEN [text |-> "parsedResponse.text"]
         ELSE [text |-> "response"]

\* what the player typed: nothing, a free text, or a "go to" with a place
UserInputs ==
    {[kind |-> "empty"], [kind |-> "free text"],
     [kind |-> "go to", place |-> "forest"], [kind |-> "go to", place |-> "crypt"]}

\* currentLocation?.connections.filter(conn => action.includes(conn))
locationMatches(location, userInput) ==
    IF location = NULL \/ userInput.kind # "go to" THEN <<>>
    ELSE SelectSeq(location.connections, LAMBDA conn : conn = userInput.place)

----------------------------------------------------------------------------
(* The commands issued to the store *)

rat == Enemy("rat", 1, 1, <<potion>>, 5, 2)
ogre == Enemy("ogre", 16, 50, <<bomb>>, 120, 7)

\* the enemy lists startCombat is called with beside the catalog's
EnemyLists == {<<rat>>, <<rat, ogre>>, <<wolf1>>}
EnemyIds == {"wolf1", "rat", "ogre", "ghost"}
Amounts == {0, 50, 150, 350}

\* 1 when a handler appended to the log, going from `before` to `after`
Appended(before, after) == IF Len(after) > Len(before) THEN 1 ELSE 0

\* set(): the store becomes s; a command that appends to the log is issued
\* only while fewer than MaxLog commands have done so (loadGame replaces the
\* log and appends nothing)
Set(s, appends) ==
    /\ appends > 0 => appended < MaxLog
    /\ appended' = appended + appends
    /\ character' = s.character
    /\ currentLocation' = s.currentLocation
    /\ gameLog' = s.gameLog
    /\ quests' = s.quests
    /\ combat' = s.combat
    /\ visitedLocations' = s.visitedLocations
    /\ gameTime' = s.gameTime

Handle(s) == Set(s, Appended(gameLog, s.gameLog))

Init ==
    /\ character = initialState.character
    /\ currentLocation = initialState.currentLocation
    /\ gameLog = initialState.gameLog
    /\ quests = initialState.quests
    /\ combat = initialState.combat
    /\ visitedLocations = initialState.visitedLocations
    /\ gameTime = initialState.gameTime
    /\ timers = 0
    /\ storage = NULL
    /\ catalog = locations
    /\ isLoading = FALSE
    /\ currentNarrative = ""
    /\ pending = NULL
    /\ rendered = <<NULL, NULL>>
    /\ initial = <<>>
    /\ appended = 0
    /\ saved = NULL
    /\ last = [op |-> "create"]

CreateNewCharacter(characterClass) ==
    /\ Handle(createNewCharacter(State, characterClass))
    /\ UNCHANGED <<timers, storage, catalog, saved, interface>>

UpdateCharacterStats(stats) ==
    /\ Handle(updateCharacterStats(State, stats))
    /\ UNCHANGED <<timers, storage, catalog, saved, interface>>

AddItemToInventory(item) ==
    /\ character # NULL => Len(character.inventory) < MaxInventory
    /\ Handle(addItemToInventory(State, item))
    /\ UNCHANGED <<timers, storage, catalog, saved, interface>>

RemoveItemFromInventory(itemId) ==
    /\ Handle(removeItemFromInventory(State, itemId))
    /\ UNCHANGED <<timers, storage, catalog, saved, interface>>

UseItem(itemId) ==
    /\ Handle(useItem(State, itemId))
    /\ UNCHANGED <<timers, storage, catalog, saved, interface>>

GainExperience(amount) ==
    /\ Handle(gainExperience(State, amount))
    /\ UNCHANGED <<timers, storage, catalog, saved, interface>>

MoveToLocation(locationId, randomRoll) ==
    /\ Handle(moveToLocation(State, catalog, locationId, randomRoll))
    /\ UNCHANGED <<timers, storage, catalog, saved, interface>>

StartCombat(enemies) ==
    /\ Handle(startCombat(State, enemies))
    /\ UNCHANGED <<timers, storage, catalog, saved, interface>>

EndCombat ==
    /\ Handle(endCombat(State))
    /\ UNCHANGED <<timers, storage, catalog, saved, interface>>

AttackEnemy(enemyId, roll) ==
    LET r == attackEnemy(State, enemyId, roll)
    IN  /\ r.scheduled => timers < MaxTimers
        /\ Handle(r.store)
        /\ timers' = IF r.scheduled THEN timers + 1 ELSE timers
        /\ UNCHANGED <<storage, catalog, saved, interface>>

\* attackEnemy issued by a caller that looks at playerTurn first, as the
\* Attack button does, which is disabled while playerTurn is false; what
\* holds the retaliations back here is the flag alone
AttackOnTurn(enemyId, roll) ==
    /\ combat # NULL
    /\ combat.playerTurn
    /\ LET r == attackEnemy(State, enemyId, roll)
       IN  /\ Handle(r.store)
           /\ timers' = IF r.scheduled THEN timers + 1 ELSE timers
    /\ UNCHANGED <<storage, catalog, saved, interface>>

\* the oldest pending retaliation fires; a callback is no command, and the
\* bound on commands does not hold it back
EnemyTurn ==
    /\ timers > 0
    /\ Set(enemyTurn(State), 0)
    /\ timers' = timers - 1
    /\ UNCHANGED <<storage, catalog, saved, interface>>

StartNewGame(randomRoll) ==
    /\ Handle(startNewGame(State, catalog, randomRoll))
    /\ UNCHANGED <<timers, storage, catalog, saved, interface>>

\* the fields of the store saveGame writes out
savedFields(s) ==
    [character |-> s.character, currentLocation |-> s.currentLocation,
     gameLog |-> s.gameLog, quests |-> s.quests,
     visitedLocations |-> s.visitedLocations, gameTime |-> s.gameTime]

SaveGame(stored) ==
    /\ storage' = saveGame(State, storage, stored)
    /\ saved' = IF stored THEN savedFields(State) ELSE saved
    /\ UNCHANGED <<character, currentLocation, gameLog, quests, combat,
                   visitedLocations, gameTime, timers, catalog, appended, interface>>

LoadGame ==
    /\ Set(loadGame(State, storage), 0)
    /\ UNCHANGED <<timers, storage, catalog, saved, interface>>

\* the free-text form is rendered: there is a character and no combat
FormRendered ==
    /\ character # NULL
    /\ ~(combat # NULL /\ combat.inCombat)

\* handleAction up to its await: the player's line goes to the log, a "go to"
\* that names a connection moves there and returns, and anything else calls
\* generateNarrative with the character and the location of the render
HandleAction(userInput, randomRoll) ==
    /\ FormRendered
    /\ IF userInput.kind = "empty" \/ isLoading
       THEN /\ Set(State, 0)
            /\ UNCHANGED interface
       ELSE LET s1 == addToGameLog(State, "You: userInput", "dialog")
                matches == locationMatches(currentLocation, userInput)
            IN  IF matches # <<>>
                THEN /\ Handle(moveToLocation(s1, catalog, matches[1], randomRoll))
                     /\ isLoading' = FALSE
                     /\ UNCHANGED <<currentNarrative, pending, rendered, initial>>
                ELSE /\ Handle(s1)
                     /\ isLoading' = TRUE
                     /\ pending' = [request |-> "generateNarrative",
                                    character |-> character,
                                    currentLocation |-> currentLocation]
                     /\ UNCHANGED <<currentNarrative, rendered, initial>>
    /\ UNCHANGED <<timers, storage, catalog, saved>>

\* handleAction after its await: generateNarrative has returned (it throws
\* nothing, so the catch of handleAction is not entered), its text is shown
\* and logged as narrative, and the finally block clears isLoading
NarrativeReturns(reply) ==
    /\ pending # NULL
    /\ pending.request = "generateNarrative"
    /\ LET response == generateNarrative(pending, reply)
       IN  /\ Set(addToGameLog(State, response.text, "narrative"), 0)
           /\ currentNarrative' = response.text
    /\ isLoading' = FALSE
    /\ pending' = NULL
    /\ UNCHANGED <<timers, storage, catalog, saved, rendered, initial>>

CombatFallbackNarrative == "The clash of steel and the snarls of your enemy fill the air."

\* generateCombatNarrative: the parsed text, the raw response when it is no
\* JSON, and the fallback text of its own catch when the request is rejected
generateCombatNarrative(reply) ==
    IF reply = "error" THEN [text |-> CombatFallbackNarrative]
    ELSE IF reply = "json"
         THEN [text |-> "parsedResponse.text"]
         ELSE [text |-> "response"]

ActionTypes == {"attack", "ability"}

\* the Attack and Ability buttons of a roster enemy are rendered and enabled:
\* there is a character and a combat, isLoading is false and the turn is the
\* player's
CombatButtonsEnabled(enemyId) ==
    /\ character # NULL
    /\ combat # NULL
    /\ combat.inCombat
    /\ ~isLoading
    /\ combat.playerTurn
    /\ findIndex(combat.enemies, enemyId) # 0

\* handleCombatAction up to its await: isLoading is set for every action
\* type; an attack is logged, carried out by attackEnemy and narrated, and
\* any other action type does nothing more
HandleCombatAction(enemyId, actionType, roll) ==
    /\ CombatButtonsEnabled(enemyId)
    /\ isLoading' = TRUE
    /\ IF actionType = "attack"
       THEN LET r == attackEnemy(addToGameLog(State, "You attack", "combat"),
                                enemyId, roll)
            IN  /\ Handle(r.store)
                /\ timers' = IF r.scheduled THEN timers + 1 ELSE timers
                /\ pending' = [request |-> "generateCombatNarrative"]
       ELSE /\ Set(State, 0)
            /\ UNCHANGED <<timers, pending>>
    /\ UNCHANGED <<storage, catalog, saved, currentNarrative, rendered, initial>>

\* handleCombatAction after its await: the text is shown and logged as
\* narrative, and the finally block clears isLoading
CombatNarrativeReturns(reply) ==
    /\ pending # NULL
    /\ pending.request = "generateCombatNarrative"
    /\ LET response == generateCombatNarrative(reply)
       IN  /\ Set(addToGameLog(State, response.text, "narrative"), 0)
           /\ currentNarrative' = response.text
    /\ isLoading' = FALSE
    /\ pending' = NULL
    /\ UNCHANGED <<timers, storage, catalog, saved, rendered, initial>>

\* the effect with the dependencies [character, currentLocation]: it runs
\* after a render in which one of them has changed, and with both present it
\* sets isLoading and calls generateNarrative
LoadInitialNarrative ==
    /\ rendered # <<character, currentLocation>>
    /\ rendered' = <<character, currentLocation>>
    /\ IF character # NULL /\ currentLocation # NULL
       THEN /\ Len(initial) < MaxRequests
            /\ isLoading' = TRUE
            /\ initial' = Append(initial, [character |-> character,
                                           currentLocation |-> currentLocation])
       ELSE UNCHANGED <<isLoading, initial>>
    /\ UNCHANGED <<character, currentLocation, gameLog, quests, combat,
                   visitedLocations, gameTime, timers, storage, catalog,
                   currentNarrative, pending, appended, saved>>

\* loadInitialNarrative after its await: the text is shown, and the finally
\* block clears isLoading
InitialNarrativeReturns(reply) ==
    /\ initial # <<>>
    /\ currentNarrative' = generateNarrative(Head(initial), reply).text
    /\ initial' = Tail(initial)
    /\ isLoading' = FALSE
    /\ UNCHANGED <<character, currentLocation, gameLog, quests, combat,
                   visitedLocations, gameTime, timers, storage, catalog,
                   pending, rendered, appended, saved>>

----------------------------------------------------------------------------
(* The history variable `last` *)

program == <<character, currentLocation, gameLog, quests, combat,
             visitedLocations, gameTime, timers, storage, catalog>>

\* every command issued is recorded
Did(command) == last' = command

\* a command is recorded when it changed something
Noted(command) == last' = IF program' = program THEN last ELSE command

----------------------------------------------------------------------------
(* The session: every command of the store, each with one input of every    *)
(* kind the command tells apart                                             *)

SessionClasses == {"Warrior", "Mage"}
SessionItems == {potion}
SessionItemIds == {"potion"}
SessionAmounts == {150}
SessionLocationIds == {"village", "forest", "nowhere"}
SessionEnemyLists == {<<rat, ogre>>}
SessionEnemyIds == {"wolf1", "rat", "ogre"}
SessionRolls == {0, 3}

Next ==
    \/ \E c \in SessionClasses :
          CreateNewCharacter(c) /\ Noted([op |-> "createNewCharacter"])
    \/ \E item \in SessionItems :
          AddItemToInventory(item) /\ Noted([op |-> "addItemToInventory"])
    \/ \E itemId \in SessionItemIds :
          RemoveItemFromInventory(itemId) /\ Noted([op |-> "removeItemFromInventory"])
    \/ \E itemId \in SessionItemIds :
          UseItem(itemId) /\ Noted([op |-> "useItem"])
    \/ \E amount \in SessionAmounts :
          GainExperience(amount) /\ Noted([op |-> "gainExperience"])
    \/ \E locationId \in SessionLocationIds, randomRoll \in BOOLEAN :
          MoveToLocation(locationId, randomRoll) /\ Noted([op |-> "moveToLocation"])
    \/ \E enemies \in SessionEnemyLists :
          StartCombat(enemies) /\ Noted([op |-> "startCombat"])
    \/ EndCombat /\ Noted([op |-> "endCombat"])
    \/ \E enemyId \in SessionEnemyIds, roll \in SessionRolls :
          AttackEnemy(enemyId, roll) /\ Noted([op |-> "attackEnemy"])
    \/ EnemyTurn /\ Noted([op |-> "enemyTurn"])
    \/ \E randomRoll \in BOOLEAN :
          StartNewGame(randomRoll) /\ Noted([op |-> "startNewGame"])
    \/ \E stored \in BOOLEAN :
          /\ Len(gameLog) <= MaxSaveLog
          /\ SaveGame(stored) /\ Noted([op |-> "saveGame"])
    \/ LoadGame /\ Noted([op |-> "loadGame"])

Spec == Init /\ [][Next]_vars

\* setTimeout runs its callback once the delay is over: a pending
\* retaliation does not stay pending forever
RetaliationFires == EnemyTurn /\ Noted([op |-> "enemyTurn"])

FairSpec == Spec /\ WF_vars(RetaliationFires)

----------------------------------------------------------------------------
(* The character commands alone, with every class, item and amount *)

NextCharacter ==
    \/ \E c \in CharacterClass :
          CreateNewCharacter(c) /\ Did([op |-> "createNewCharacter", class |-> c])
    \/ \E item \in Items :
          AddItemToInventory(item) /\ Did([op |-> "addItemToInventory", item |-> item])
    \/ \E itemId \in ItemIds :
          /\ RemoveItemFromInventory(itemId)
          /\ Did([op |-> "removeItemFromInventory", itemId |-> itemId])
    \/ \E itemId \in ItemIds :
          UseItem(itemId) /\ Did([op |-> "useItem", itemId |-> itemId])
    \/ \E amount \in Amounts :
          GainExperience(amount) /\ Did([op |-> "gainExperience", amount |-> amount])

SpecCharacter == Init /\ [][NextCharacter]_vars

----------------------------------------------------------------------------
(* The combat commands alone, with every class, enemy list and damage roll *)

NextCombat ==
    \/ \E c \in CharacterClass :
          CreateNewCharacter(c) /\ Did([op |-> "createNewCharacter", class |-> c])
    \/ \E enemies \in EnemyLists :
          StartCombat(enemies) /\ Did([op |-> "startCombat", enemies |-> enemies])
    \/ \E enemyId \in EnemyIds, roll \in Rolls :
          /\ AttackEnemy(enemyId, roll)
          /\ Did([op |-> "attackEnemy", enemyId |-> enemyId, roll |-> roll])
    \/ EnemyTurn /\ Did([op |-> "enemyTurn"])
    \/ EndCombat /\ Did([op |-> "endCombat"])

\* a character of any class has been created and a combat started
InitCombat ==
    \E c \in CharacterClass, enemies \in EnemyLists :
        LET s == startCombat(createNewCharacter(initialState, c), enemies)
        IN  /\ character = s.character
            /\ currentLocation = s.currentLocation
            /\ gameLog = s.gameLog
            /\ quests = s.quests
            /\ combat = s.combat
            /\ visitedLocations = s.visitedLocations
            /\ gameTime = s.gameTime
            /\ timers = 0
            /\ storage = NULL
            /\ catalog = locations
            /\ isLoading = FALSE
            /\ currentNarrative = ""
            /\ pending = NULL
            /\ rendered = <<NULL, NULL>>
            /\ initial = <<>>
            /\ appended = 0
            /\ saved = NULL
            /\ last = [op |-> "startCombat", enemies |-> enemies]

SpecCombat == InitCombat /\ [][NextCombat]_vars

----------------------------------------------------------------------------
(* Attacks of characters of every strength and dexterity *)

StatUpdates ==
    {[strength |-> st, dexterity |-> dx] : st \in 0 .. MaxStat, dx \in 0 .. MaxStat}

NextDamage ==
    \/ \E stats \in StatUpdates :
          /\ UpdateCharacterStats(stats)
          /\ Did([op |-> "updateCharacterStats", stats |-> stats])
    \/ \E enemyId \in SessionEnemyIds, roll \in Rolls :
          /\ AttackEnemy(enemyId, roll)
          /\ Did([op |-> "attackEnemy", enemyId |-> enemyId, roll |-> roll])
    \/ EnemyTurn /\ Did([op |-> "enemyTurn"])

\* a Warrior (strength 8, dexterity 5) has been created and a combat started
InitDamage ==
    \E c \in {"Warrior"}, enemies \in SessionEnemyLists :
        LET s == startCombat(createNewCharacter(initialState, c), enemies)
        IN  /\ character = s.character
            /\ currentLocation = s.currentLocation
            /\ gameLog = s.gameLog
            /\ quests = s.quests
            /\ combat = s.combat
            /\ visitedLocations = s.visitedLocations
            /\ gameTime = s.gameTime
            /\ timers = 0
            /\ storage = NULL
            /\ catalog = locations
            /\ isLoading = FALSE
            /\ currentNarrative = ""
            /\ pending = NULL
            /\ rendered = <<NULL, NULL>>
            /\ initial = <<>>
            /\ appended = 0
            /\ saved = NULL
            /\ last = [op |-> "startCombat", enemies |-> enemies]

SpecDamage == InitDamage /\ [][NextDamage]_vars

----------------------------------------------------------------------------
(* One combat, fought by a caller that attacks on the player's turn only *)

NextTurns ==
    \/ \E enemyId \in EnemyIds, roll \in Rolls :
          /\ AttackOnTurn(enemyId, roll)
          /\ Did([op |-> "attackEnemy", enemyId |-> enemyId, roll |-> roll])
    \/ EnemyTurn /\ Did([op |-> "enemyTurn"])
    \/ \E item \in SessionItems :
          AddItemToInventory(item) /\ Did([op |-> "addItemToInventory", item |-> item])
    \/ \E itemId \in SessionItemIds :
          UseItem(itemId) /\ Did([op |-> "useItem", itemId |-> itemId])
    \/ EndCombat /\ Did([op |-> "endCombat"])

\* the rosters of the combat: those of the commands, and one of two enemies
\* the character outlives
TurnEnemyLists == EnemyLists \cup {<<wolf1, rat>>}

\* a character of any class has been created and a combat started, either
\* as the first thing or right after a blow on the ogre of an earlier combat,
\* whose retaliation is then still pending
InitTurns ==
    \E c \in CharacterClass, enemies \in TurnEnemyLists, earlier \in BOOLEAN :
        LET s0 == createNewCharacter(initialState, c)
            r == attackEnemy(startCombat(s0, <<rat, ogre>>), "ogre", 0)
            s == startCombat(IF earlier THEN r.store ELSE s0, enemies)
        IN  /\ character = s.character
            /\ currentLocation = s.currentLocation
            /\ gameLog = s.gameLog
            /\ quests = s.quests
            /\ combat = s.combat
            /\ visitedLocations = s.visitedLocations
            /\ gameTime = s.gameTime
            /\ timers = IF earlier /\ r.scheduled THEN 1 ELSE 0
            /\ storage = NULL
            /\ catalog = locations
            /\ isLoading = FALSE
            /\ currentNarrative = ""
            /\ pending = NULL
            /\ rendered = <<NULL, NULL>>
            /\ initial = <<>>
            /\ appended = 0
            /\ saved = NULL
            /\ last = [op |-> "startCombat", enemies |-> enemies]

SpecTurns == InitTurns /\ [][NextTurns]_vars

----------------------------------------------------------------------------
(* Combat sessions, with the non-lethal blows of the session counted *)

\* a command is recorded together with the number of blows struck in the
\* present session that left their target alive
Tally(command, blows) == last' = command @@ [blows |-> blows]

\* attackEnemy(enemyId) with this roll finds its target and leaves it alive
LeavesAlive(enemyId, roll) ==
    /\ combat # NULL
    /\ character # NULL
    /\ \E k \in 1 .. Len(combat.enemies) :
          /\ combat.enemies[k].id = enemyId
          /\ \A j \in 1 .. (k - 1) : combat.enemies[j].id # enemyId
          /\ combat.enemies[k].health
                - calculateDamage(character.stats.strength,
                                  character.stats.dexterity, FALSE, roll) > 0

\* moveToLocation(locationId) with this random number starts a combat
Encounters(locationId, randomRoll) ==
    /\ randomRoll
    /\ locationId \in DOMAIN catalog
    /\ catalog[locationId].enemies # <<>>

RoundLocationIds == {"forest", "village"}

NextRounds ==
    \/ \E enemies \in EnemyLists :
          /\ StartCombat(enemies)
          /\ Tally([op |-> "startCombat", enemies |-> enemies], 0)
    \/ \E locationId \in RoundLocationIds, randomRoll \in BOOLEAN :
          /\ MoveToLocation(locationId, randomRoll)
          /\ Tally([op |-> "moveToLocation", locationId |-> locationId],
                   IF Encounters(locationId, randomRoll) THEN 0 ELSE last.blows)
    \/ \E enemyId \in EnemyIds, roll \in Rolls :
          /\ AttackEnemy(enemyId, roll)
          /\ Tally([op |-> "attackEnemy", enemyId |-> enemyId, roll |-> roll],
                   IF LeavesAlive(enemyId, roll) THEN last.blows + 1 ELSE last.blows)
    \/ EnemyTurn /\ Tally([op |-> "enemyTurn"], last.blows)
    \/ EndCombat /\ Tally([op |-> "endCombat"], last.blows)

\* a Warrior or a Mage has been created and a combat started, either as the
\* first thing or right after a blow on the ogre of an earlier combat, whose
\* retaliation is then still pending
InitRounds ==
    \E c \in SessionClasses, enemies \in EnemyLists, earlier \in BOOLEAN :
        LET s0 == createNewCharacter(initialState, c)
            r == attackEnemy(startCombat(s0, <<rat, ogre>>), "ogre", 0)
            s == startCombat(IF earlier THEN r.store ELSE s0, enemies)
        IN  /\ character = s.character
            /\ currentLocation = s.currentLocation
            /\ gameLog = s.gameLog
            /\ quests = s.quests
            /\ combat = s.combat
            /\ visitedLocations = s.visitedLocations
            /\ gameTime = s.gameTime
            /\ timers = IF earlier /\ r.scheduled THEN 1 ELSE 0
            /\ storage = NULL
            /\ catalog = locations
            /\ isLoading = FALSE
            /\ currentNarrative = ""
            /\ pending = NULL
            /\ rendered = <<NULL, NULL>>
            /\ initial = <<>>
            /\ appended = 0
            /\ saved = NULL
            /\ last = [op |-> "startCombat", enemies |-> enemies, blows |-> 0]

SpecRounds == InitRounds /\ [][NextRounds]_vars

----------------------------------------------------------------------------
(* Items picked up and used by a character that a combat has hurt *)

\* an enemy that outlasts every blow and takes 12 health with each of its own
bear == Enemy("bear", 60, 10, <<>>, 30, 0)

NextItems ==
    \/ \E item \in Items :
          AddItemToInventory(item) /\ Did([op |-> "addItemToInventory", item |-> item])
    \/ \E itemId \in ItemIds :
          UseItem(itemId) /\ Did([op |-> "useItem", itemId |-> itemId])
    \/ \E roll \in SessionRolls :
          /\ AttackOnTurn("bear", roll)
          /\ Did([op |-> "attackEnemy", enemyId |-> "bear", roll |-> roll])
    \/ EnemyTurn /\ Did([op |-> "enemyTurn"])

\* a Warrior or a Mage has been created and a combat with the bear started
InitItems ==
    \E c \in SessionClasses :
        LET s == startCombat(createNewCharacter(initialState, c), <<bear>>)
        IN  /\ character = s.character
            /\ currentLocation = s.currentLocation
            /\ gameLog = s.gameLog
            /\ quests = s.quests
            /\ combat = s.combat
            /\ visitedLocations = s.visitedLocations
            /\ gameTime = s.gameTime
            /\ timers = 0
            /\ storage = NULL
            /\ catalog = locations
            /\ isLoading = FALSE
            /\ currentNarrative = ""
            /\ pending = NULL
            /\ rendered = <<NULL, NULL>>
            /\ initial = <<>>
            /\ appended = 0
            /\ saved = NULL
            /\ last = [op |-> "startCombat", enemies |-> <<bear>>]

SpecItems == InitItems /\ [][NextItems]_vars

----------------------------------------------------------------------------
(* The component as the player drives it: the free-text form, the combat   *)
(* buttons, the initial narrative, and the requests and timers that settle  *)

LockInputs == {[kind |-> "free text"], [kind |-> "go to", place |-> "forest"]}

PlayerTypes ==
    \E userInput \in LockInputs, randomRoll \in BOOLEAN :
        /\ HandleAction(userInput, randomRoll)
        /\ Did([op |-> "handleAction", userInput |-> userInput])

PlayerClicks ==
    \E enemyId \in {"wolf1"}, actionType \in ActionTypes, roll \in SessionRolls :
        /\ HandleCombatAction(enemyId, actionType, roll)
        /\ Did([op |-> "handleCombatAction", enemyId |-> enemyId,
                actionType |-> actionType])

ActionSettles ==
    \E reply \in Replies :
        NarrativeReturns(reply) /\ Did([op |-> "narrativeReturns", reply |-> reply])

CombatActionSettles ==
    \E reply \in Replies :
        /\ CombatNarrativeReturns(reply)
        /\ Did([op |-> "combatNarrativeReturns", reply |-> reply])

EffectRuns == LoadInitialNarrative /\ Did([op |-> "loadInitialNarrative"])

EffectSettles ==
    \E reply \in Replies :
        /\ InitialNarrativeReturns(reply)
        /\ Did([op |-> "initialNarrativeReturns", reply |-> reply])

TimerFires == EnemyTurn /\ Did([op |-> "enemyTurn"])

NextLock ==
    \/ PlayerTypes
    \/ PlayerClicks
    \/ ActionSettles
    \/ CombatActionSettles
    \/ EffectRuns
    \/ EffectSettles
    \/ TimerFires

\* handleConfirmCharacter has created a Warrior or a Mage and started the
\* new game, and the page has put GameInterface in the place of
\* CharacterCreation: its effect has not run yet
InitLock ==
    \E c \in SessionClasses :
        LET s == startNewGame(createNewCharacter(initialState, c), locations, FALSE)
        IN  /\ character = s.character
            /\ currentLocation = s.currentLocation
            /\ gameLog = s.gameLog
            /\ quests = s.quests
            /\ combat = s.combat
            /\ visitedLocations = s.visitedLocations
            /\ gameTime = s.gameTime
            /\ timers = 0
            /\ storage = NULL
            /\ catalog = locations
            /\ isLoading = FALSE
            /\ currentNarrative = ""
            /\ pending = NULL
            /\ rendered = <<NULL, NULL>>
            /\ initial = <<>>
            /\ appended = 0
            /\ saved = NULL
            /\ last = [op |-> "handleConfirmCharacter", class |-> c]

\* what is not up to the player happens in the end: a request settles, the
\* effect runs after the render, a timer fires
SpecLock ==
    /\ InitLock
    /\ [][NextLock]_vars
    /\ WF_vars(ActionSettles)
    /\ WF_vars(CombatActionSettles)
    /\ WF_vars(EffectRuns)
    /\ WF_vars(EffectSettles)
    /\ WF_vars(TimerFires)

----------------------------------------------------------------------------
(* The world commands alone, with every location id *)

LocationIds == DOMAIN locations \cup {"nowhere"}

NextWorld ==
    \/ \E c \in SessionClasses :
          CreateNewCharacter(c) /\ Did([op |-> "createNewCharacter", class |-> c])
    \/ \E locationId \in LocationIds, randomRoll \in BOOLEAN :
          /\ MoveToLocation(locationId, randomRoll)
          /\ Did([op |-> "moveToLocation", locationId |-> locationId])
    \/ \E randomRoll \in BOOLEAN :
          StartNewGame(randomRoll) /\ Did([op |-> "startNewGame"])

SpecWorld == Init /\ [][NextWorld]_vars

----------------------------------------------------------------------------
(* A game saved and loaded back while a combat is fought: the save may be   *)
(* older than the character, and a retaliation may be pending at the load   *)

LoadEnemyLists == {<<wolf1>>}
LoadEnemyIds == {"wolf1"}

NextLoad ==
    \/ \E c \in SessionClasses :
          CreateNewCharacter(c) /\ Did([op |-> "createNewCharacter", class |-> c])
    \/ \E enemies \in LoadEnemyLists :
          StartCombat(enemies) /\ Did([op |-> "startCombat", enemies |-> enemies])
    \/ \E enemyId \in LoadEnemyIds, roll \in SessionRolls :
          /\ AttackEnemy(enemyId, roll)
          /\ Did([op |-> "attackEnemy", enemyId |-> enemyId, roll |-> roll])
    \/ EnemyTurn /\ Did([op |-> "enemyTurn", after |-> last])
    \/ \E stored \in BOOLEAN :
          SaveGame(stored) /\ Did([op |-> "saveGame", stored |-> stored])
    \/ LoadGame /\ Did([op |-> "loadGame", replaced |-> character])

SpecLoad == Init /\ [][NextLoad]_vars

----------------------------------------------------------------------------
(* The places of a session: moves to catalog ids, to an id no object has    *)
(* and to an inherited key, new games, and the save slot                    *)

PlaceIds == {"village", "forest", "nowhere", "constructor"}

NextPlaces ==
    \/ \E c \in SessionClasses :
          CreateNewCharacter(c) /\ Did([op |-> "createNewCharacter", class |-> c])
    \/ \E locationId \in PlaceIds, randomRoll \in BOOLEAN :
          /\ MoveToLocation(locationId, randomRoll)
          /\ Did([op |-> "moveToLocation", locationId |-> locationId])
    \/ \E randomRoll \in BOOLEAN :
          StartNewGame(randomRoll) /\ Did([op |-> "startNewGame"])
    \/ \E stored \in BOOLEAN :
          SaveGame(stored) /\ Did([op |-> "saveGame", stored |-> stored])
    \/ LoadGame /\ Did([op |-> "loadGame"])

SpecPlaces == Init /\ [][NextPlaces]_vars

----------------------------------------------------------------------------
(* The save slot: a session that is saved at any point and loaded back *)

NextSave ==
    \/ \E c \in SessionClasses :
          CreateNewCharacter(c) /\ Did([op |-> "createNewCharacter", class |-> c])
    \/ \E item \in SessionItems :
          AddItemToInventory(item) /\ Did([op |-> "addItemToInventory", item |-> item])
    \/ \E locationId \in SessionLocationIds, randomRoll \in BOOLEAN :
          /\ MoveToLocation(locationId, randomRoll)
          /\ Did([op |-> "moveToLocation", locationId |-> locationId])
    \/ \E stored \in BOOLEAN :
          SaveGame(stored) /\ Did([op |-> "saveGame", stored |-> stored])
    \/ LoadGame /\ Did([op |-> "loadGame"])

SpecSave == Init /\ [][NextSave]_vars

----------------------------------------------------------------------------
(* Every command with its inputs on record, the ones with a valid target    *)
(* beside the ones without                                                  *)

TargetClasses == {"Rogue"}
TargetItemIds == {"potion", "absent"}
TargetLocationIds == {"forest", "nowhere", "constructor"}
TargetEnemyIds == {"ogre", "ghost"}
TargetRolls == {0}

NextTargets ==
    \/ \E c \in TargetClasses :
          CreateNewCharacter(c) /\ Did([op |-> "createNewCharacter", class |-> c])
    \/ \E item \in SessionItems :
          AddItemToInventory(item) /\ Did([op |-> "addItemToInventory", item |-> item])
    \/ \E itemId \in TargetItemIds :
          /\ RemoveItemFromInventory(itemId)
          /\ Did([op |-> "removeItemFromInventory", itemId |-> itemId])
    \/ \E itemId \in TargetItemIds :
          UseItem(itemId) /\ Did([op |-> "useItem", itemId |-> itemId])
    \/ \E amount \in SessionAmounts :
          GainExperience(amount) /\ Did([op |-> "gainExperience", amount |-> amount])
    \/ \E locationId \in TargetLocationIds, randomRoll \in BOOLEAN :
          /\ MoveToLocation(locationId, randomRoll)
          /\ Did([op |-> "moveToLocation", locationId |-> locationId])
    \/ \E enemies \in SessionEnemyLists :
          StartCombat(enemies) /\ Did([op |-> "startCombat", enemies |-> enemies])
    \/ EndCombat /\ Did([op |-> "endCombat"])
    \/ \E enemyId \in TargetEnemyIds, roll \in TargetRolls :
          /\ AttackEnemy(enemyId, roll)
          /\ Did([op |-> "attackEnemy", enemyId |-> enemyId, roll |-> roll])
    \/ EnemyTurn /\ Did([op |-> "enemyTurn"])
    \/ \E randomRoll \in BOOLEAN :
          StartNewGame(randomRoll) /\ Did([op |-> "startNewGame"])
    \/ \E stored \in BOOLEAN :
          /\ Len(gameLog) <= MaxSaveLog
          /\ SaveGame(stored) /\ Did([op |-> "saveGame", stored |-> stored])
    \/ LoadGame /\ Did([op |-> "loadGame"])

SpecTargets == Init /\ [][NextTargets]_vars

----------------------------------------------------------------------------
(* The free-text form: a character that walks and talks *)

NextInterface ==
    \/ \E c \in SessionClasses :
          CreateNewCharacter(c) /\ Did([op |-> "createNewCharacter", class |-> c])
    \/ \E randomRoll \in BOOLEAN :
          StartNewGame(randomRoll) /\ Did([op |-> "startNewGame"])
    \/ \E locationId \in SessionLocationIds, randomRoll \in BOOLEAN :
          /\ MoveToLocation(locationId, randomRoll)
          /\ Did([op |-> "moveToLocation", locationId |-> locationId])
    \/ \E userInput \in UserInputs, randomRoll \in BOOLEAN :
          /\ HandleAction(userInput, randomRoll)
          /\ Did([op |-> "handleAction", userInput |-> userInput])
    \/ \E reply \in Replies :
          NarrativeReturns(reply) /\ Did([op |-> "narrativeReturns", reply |-> reply])
    \/ EndCombat /\ Did([op |-> "endCombat"])

SpecInterface == Init /\ [][NextInterface]_vars

----------------------------------------------------------------------------
(* Claims *)

\* the drops of a roster, enemy by enemy, in order
RECURSIVE dropsOf(_)
dropsOf(enemies) ==
    IF enemies = <<>> THEN <<>>
    ELSE Head(enemies).drops \o dropsOf(Tail(enemies))

\* the step is an attackEnemy that ended the combat
Victory ==
    /\ last'.op = "attackEnemy"
    /\ character # NULL
    /\ combat # NULL
    /\ combat' = NULL

\* C1: when attackEnemy defeats the last enemy, the character afterwards is
\* the character before the attack with gainExperience(sum of the roster's
\* experience rewards) applied: level, experience, stats, maxima, health, mana.
C1_ExperienceGrantedOnce ==
    [][Victory =>
         LET expected == gainExperience(State, sumExperience(combat.enemies)).character
         IN  /\ character'.level = expected.level
             /\ character'.experience = expected.experience
             /\ character'.stats = expected.stats
             /\ character'.maxHealth = expected.maxHealth
             /\ character'.maxMana = expected.maxMana
             /\ character'.health = expected.health
             /\ character'.mana = expected.mana]_vars

\* the step is an attackEnemy on an enemy of the roster
AttackOnRoster ==
    /\ last'.op = "attackEnemy"
    /\ character # NULL
    /\ combat # NULL
    /\ \E k \in 1 .. Len(combat.enemies) : combat.enemies[k].id = last'.enemyId

\* the enemy attacked is in no roster after the step
TargetGone ==
    \/ combat' = NULL
    \/ \A k \in 1 .. Len(combat'.enemies) : combat'.enemies[k].id # last'.enemyId

\* C2: an attack that brings its target's health to 0 (as every attack of a
\* character with strength >= 1 on an enemy with health 1 does) leaves the
\* target out of the roster, and leaves no combat when the target was the
\* only roster entry.
C2_DefeatedEnemyRemoved ==
    [][AttackOnRoster =>
         LET target == combat.enemies[findIndex(combat.enemies, last'.enemyId)]
             damage == calculateDamage(character.stats.strength,
                                       character.stats.dexterity, FALSE, last'.roll)
             lethal == \/ target.health - damage <= 0
                       \/ character.stats.strength >= 1 /\ target.health = 1
         IN  lethal => /\ TargetGone
                       /\ Len(combat.enemies) = 1 => combat' = NULL]_vars

\* the rat of <<rat, ogre>> was attacked and is gone, the ogre is left
C2_Witness ==
    /\ last.op = "attackEnemy"
    /\ last.enemyId = "rat"
    /\ combat # NULL
    /\ Len(combat.enemies) = 1
    /\ combat.enemies[1].id = "ogre"

\* the gold rewards of the first k enemies of a roster, added up
RECURSIVE rosterGold(_, _)
rosterGold(enemies, k) ==
    IF k = 0 THEN 0 ELSE rosterGold(enemies, k - 1) + enemies[k].gold

\* C3: endCombat with a combat and a character adds the sum of the roster's
\* gold rewards to the character's gold and leaves no combat; endCombat
\* without a combat changes nothing.
C3_GoldGrantedOnce ==
    [][last'.op = "endCombat" =>
         IF combat # NULL /\ character # NULL
         THEN /\ character'.gold = character.gold + rosterGold(combat.enemies, Len(combat.enemies))
              /\ combat' = NULL
         ELSE combat = NULL => UNCHANGED program]_vars

\* endCombat has granted the gold of a roster
C3_Witness ==
    /\ last.op = "endCombat"
    /\ combat = NULL
    /\ character # NULL
    /\ character.gold > 10

\* C4: after endCombat the inventory is the inventory before it followed by
\* every drop of every roster enemy, in order.
C4_DropsTransferred ==
    [][(last'.op = "endCombat" /\ combat # NULL /\ character # NULL) =>
         character'.inventory = character.inventory \o dropsOf(combat.enemies)]_vars

\* C5: a character that exists has 0 <= health <= maxHealth,
\* 0 <= mana <= maxMana, experience >= 0 and level >= 1.
C5_CharacterInvariant ==
    character # NULL =>
        /\ 0 <= character.health /\ character.health <= character.maxHealth
        /\ 0 <= character.mana /\ character.mana <= character.maxMana
        /\ character.experience >= 0
        /\ character.level >= 1

\* a retaliation has taken the character's health down to the floor
C5_Witness ==
    /\ last.op = "enemyTurn"
    /\ character # NULL
    /\ character.health = 0

\* C6: a retaliation that fires when there is no combat changes neither the
\* character, nor the combat object, nor the game log.
C6_StaleRetaliationIsNoOp ==
    [][(last'.op = "enemyTurn" /\ combat = NULL) =>
         UNCHANGED <<character, combat, gameLog, currentLocation, visitedLocations>>]_vars

\* a retaliation has fired with the combat gone (a retaliation never clears
\* the combat, so it was gone when it fired)
C6_Witness ==
    /\ last.op = "enemyTurn"
    /\ combat = NULL
    /\ character # NULL

\* the enemies the catalog lists at a location
catalogEnemies(locationId) == locations[locationId].enemies

\* the move just made started an encounter: its "Combat started" entry is
\* the last of the log
EncounterStarted ==
    /\ last.op = "moveToLocation"
    /\ gameLog # <<>>
    /\ gameLog[Len(gameLog)].text = "Combat started"

GrowthTable ==
    [Warrior |-> [strength |-> 2, dexterity |-> 0, constitution |-> 1,
                  intelligence |-> 0, wisdom |-> 0, charisma |-> 0],
     Mage    |-> [strength |-> 0, dexterity |-> 0, constitution |-> 0,
                  intelligence |-> 2, wisdom |-> 1, charisma |-> 0],
     Rogue   |-> [strength |-> 0, dexterity |-> 2, constitution |-> 0,
                  intelligence |-> 0, wisdom |-> 0, charisma |-> 1],
     Cleric  |-> [strength |-> 0, dexterity |-> 0, constitution |-> 1,
                  intelligence |-> 0, wisdom |-> 2, charisma |-> 0]]

StatNames == {"strength", "dexterity", "constitution", "intelligence", "wisdom", "charisma"}

\* C8: gainExperience(amount) with total = experience + amount and
\* threshold = 100 * level: when total >= threshold the level rises by one,
\* experience is total - threshold, the class growth is added to the stats,
\* maxHealth = 20 + 5 * constitution, maxMana = 10 * intelligence, health and
\* mana are at their maxima; otherwise experience is total and nothing else
\* of the character changes.
C8_GainExperience ==
    [][(last'.op = "gainExperience" /\ character # NULL) =>
         LET total == character.experience + last'.amount
             threshold == character.level * 100
         IN  IF total >= threshold
             THEN /\ character'.level = character.level + 1
                  /\ character'.experience = total - threshold
                  /\ \A n \in StatNames :
                        character'.stats[n] =
                            character.stats[n] + GrowthTable[character.class][n]
                  /\ character'.maxHealth = 20 + 5 * character'.stats.constitution
                  /\ character'.maxMana = 10 * character'.stats.intelligence
                  /\ character'.health = character'.maxHealth
                  /\ character'.mana = character'.maxMana
                  /\ character'.class = character.class
                  /\ character'.inventory = character.inventory
                  /\ character'.gold = character.gold
             ELSE character' = [character EXCEPT !.experience = total]]_vars

\* 350 experience at level 1 made level 2 with 250 left, not level 3
C8_Witness ==
    /\ last.op = "gainExperience"
    /\ last.amount = 350
    /\ character # NULL
    /\ character.level = 2
    /\ character.experience = 250

\* the base stats of the classes
BaseTable ==
    [Warrior |-> [strength |-> 8, dexterity |-> 5, constitution |-> 7,
                  intelligence |-> 3, wisdom |-> 4, charisma |-> 5],
     Mage    |-> [strength |-> 3, dexterity |-> 4, constitution |-> 4,
                  intelligence |-> 8, wisdom |-> 7, charisma |-> 6],
     Rogue   |-> [strength |-> 5, dexterity |-> 8, constitution |-> 5,
                  intelligence |-> 6, wisdom |-> 4, charisma |-> 6],
     Cleric  |-> [strength |-> 5, dexterity |-> 4, constitution |-> 6,
                  intelligence |-> 5, wisdom |-> 8, charisma |-> 7]]

\* C9: createNewCharacter yields the class's base stats, maxHealth =
\* 20 + 5 * constitution, maxMana = 10 * intelligence, health and mana at
\* their maxima, level 1, experience 0, gold 10 and an empty inventory.
C9_CreateCharacter ==
    last.op = "createNewCharacter" =>
        /\ character # NULL
        /\ character.class = last.class
        /\ character.stats = BaseTable[last.class]
        /\ character.maxHealth = 20 + 5 * character.stats.constitution
        /\ character.maxMana = 10 * character.stats.intelligence
        /\ character.health = character.maxHealth
        /\ character.mana = character.maxMana
        /\ character.level = 1
        /\ character.experience = 0
        /\ character.gold = 10
        /\ character.inventory = <<>>

\* a Cleric has been created over a character that had gained a level
C9_Witness ==
    /\ last.op = "createNewCharacter"
    /\ last.class = "Cleric"
    /\ appended > 0

\* the first inventory entry with the id, 0 when there is none
FirstWithId(inventory, itemId) ==
    IF \E k \in 1 .. Len(inventory) : inventory[k].id = itemId
    THEN CHOOSE k \in 1 .. Len(inventory) :
            /\ inventory[k].id = itemId
            /\ \A j \in 1 .. Len(inventory) : inventory[j].id = itemId => k <= j
    ELSE 0

\* C10: useItem with an id no inventory entry has, or whose first entry is
\* not usable, leaves the inventory, the health and the game log as they were.
C10_UseItemNoOp ==
    [][(last'.op = "useItem" /\ character # NULL) =>
         LET first == FirstWithId(character.inventory, last'.itemId)
         IN  (first = 0 \/ ~character.inventory[first].usable) =>
                /\ character'.inventory = character.inventory
                /\ character'.health = character.health
                /\ gameLog' = gameLog]_vars

\* useItem("potion") was issued with the unusable entry of that id first and
\* a usable potion behind it
C10_Witness ==
    /\ last.op = "useItem"
    /\ last.itemId = "potion"
    /\ character # NULL
    /\ character.inventory = <<relic, potion>>

\* no value occurs twice in the sequence
NoDuplicates(seq) ==
    \A i, j \in 1 .. Len(seq) : i # j => seq[i] # seq[j]

\* the value occurs in the sequence
Visited(seq, id) == \E i \in 1 .. Len(seq) : seq[i] = id

\* C11: the visited list never holds an id twice; a move to a catalog id
\* not yet visited appends it, and a move to a visited id, or to an id the
\* catalog does not have, leaves the list as it was.
C11_VisitedOnce ==
    [][/\ NoDuplicates(visitedLocations')
       /\ last'.op = "moveToLocation" =>
             IF last'.locationId \in DOMAIN locations
                /\ ~Visited(visitedLocations, last'.locationId)
             THEN visitedLocations' = Append(visitedLocations, last'.locationId)
             ELSE visitedLocations' = visitedLocations]_vars

\* the forest has been moved to twice and is in the list once
C11_Witness ==
    /\ last.op = "moveToLocation"
    /\ last.locationId = "forest"
    /\ appended = 2
    /\ visitedLocations = <<"forest">>
    /\ Len(gameLog) >= 2

\* the integer part of one and a half times n
OneAndHalf(n) == CHOOSE q \in 0 .. 2 * n : 2 * q <= 3 * n /\ 3 * n < 2 * q + 2

\* C12: the damage of an attack is floor(1.5 * strength) plus the roll, a
\* value of floor(1.5 * strength) .. floor(1.5 * strength) + 3 whatever the
\* dexterity, and of 12 .. 15 for strength 8: the target loses that much
\* health, and is gone when that takes its health to 0.
C12_DamageRange ==
    [][AttackOnRoster =>
         LET index == findIndex(combat.enemies, last'.enemyId)
             target == combat.enemies[index]
             low == OneAndHalf(character.stats.strength)
             damage == low + last'.roll
         IN  /\ damage \in low .. low + 3
             /\ character.stats.strength = 8 => damage \in 12 .. 15
             /\ IF target.health - damage <= 0
                THEN TargetGone
                ELSE /\ combat' # NULL
                     /\ Len(combat'.enemies) = Len(combat.enemies)
                     /\ combat'.enemies[index].id = target.id
                     /\ combat'.enemies[index].health = target.health - damage]_vars

\* strength 8 and dexterity 5 with the roll 3 took 15 of the ogre's 16 health
C12_Witness ==
    /\ last.op = "attackEnemy"
    /\ last.enemyId = "ogre"
    /\ last.roll = 3
    /\ character # NULL
    /\ character.stats.strength = 8
    /\ character.stats.dexterity = 5
    /\ combat # NULL
    /\ Len(combat.enemies) = 2
    /\ combat.enemies[2].health = 1

\* the step leaves the store as it was
StoreUnchanged ==
    UNCHANGED <<character, currentLocation, gameLog, quests, combat,
                visitedLocations, gameTime>>

NoOp == StoreUnchanged /\ timers' = timers

\* the commands that only need a character
NeedCharacter ==
    {"gainExperience", "addItemToInventory", "removeItemFromInventory",
     "useItem", "startNewGame"}

\* C14: a command with an invalid target or a missing precondition changes
\* nothing and schedules no retaliation: attackEnemy without combat, without
\* character or on an id not in the roster; endCombat without combat or
\* character; moveToLocation to an id the catalog lacks; gainExperience,
\* addItem, removeItem, useItem, startNewGame without character; removeItem
\* of an id the inventory lacks; load without a saved record.
C14_InvalidTargetIsNoOp ==
    [][/\ (/\ last'.op = "attackEnemy"
           /\ \/ combat = NULL
              \/ character = NULL
              \/ \A k \in 1 .. Len(combat.enemies) :
                    combat.enemies[k].id # last'.enemyId) => NoOp
       /\ (last'.op = "endCombat" /\ (combat = NULL \/ character = NULL)) => NoOp
       /\ (/\ last'.op = "moveToLocation"
           /\ last'.locationId \notin DOMAIN locations) => NoOp
       /\ (last'.op \in NeedCharacter /\ character = NULL) => NoOp
       /\ (/\ last'.op = "removeItemFromInventory"
           /\ character # NULL
           /\ \A k \in 1 .. Len(character.inventory) :
                 character.inventory[k].id # last'.itemId) => NoOp
       /\ (last'.op = "loadGame" /\ storage = NULL) => NoOp]_vars

\* C15: a combat object with inCombat = TRUE has a roster that is not empty.
C15_RosterNonEmpty ==
    (combat # NULL /\ combat.inCombat) => Len(combat.enemies) > 0

\* the wolf of a forest encounter, wounded, has retaliated and is still the
\* roster of the combat
C15_Witness ==
    /\ last.op = "enemyTurn"
    /\ combat # NULL
    /\ combat.inCombat
    /\ Len(combat.enemies) = 1
    /\ combat.enemies[1].id = "wolf1"
    /\ combat.enemies[1].health < 15
    /\ combat.enemies[1].health > 0

\* the first sequence is the beginning of the second
IsPrefix(before, after) ==
    /\ Len(before) <= Len(after)
    /\ \A k \in 1 .. Len(before) : after[k] = before[k]

\* C16, as stated: for every operation, load among them, the log before
\* the operation is a prefix of the log after it.
C16_AppendOnly ==
    [][IsPrefix(gameLog, gameLog')]_vars

\* C16, amended: for every operation but load the log before the operation
\* is a prefix of the log after it; a load that changes the log puts the
\* log of the saved session in its place.
C16_AppendOnlyButLoad ==
    [][IF last'.op = "loadGame" /\ gameLog' # gameLog
       THEN saved # NULL /\ gameLog' = saved.gameLog
       ELSE IsPrefix(gameLog, gameLog')]_vars

\* a load has put the empty log of the saved session in the place of a log
\* that had entries
C16_Witness ==
    /\ last.op = "loadGame"
    /\ saved # NULL
    /\ gameLog = <<>>
    /\ appended > 0

\* C17: when the collaborator fails during a free-text action (the request
\* is rejected, or the response is no JSON), the narrative shown is the
\* fallback text and one entry of type system is appended to the log.
C17_CollaboratorFailure ==
    [][(last'.op = "narrativeReturns" /\ last'.reply \in {"error", "text"}) =>
         /\ currentNarrative' = FallbackNarrative
         /\ Len(gameLog') = Len(gameLog) + 1
         /\ IsPrefix(gameLog, gameLog')
         /\ gameLog'[Len(gameLog')].type = "system"]_vars

\* C18: a retaliation that fires right after a startCombat was scheduled by
\* an attack of an earlier combat (a combat just started has seen no attack),
\* and so it leaves the character's health and the new combat's playerTurn
\* as they are.
C18_RetaliationOfItsOwnCombat ==
    [][(/\ last'.op = "enemyTurn"
        /\ last.op = "startCombat"
        /\ character # NULL
        /\ combat # NULL) =>
         /\ character'.health = character.health
         /\ combat' # NULL
         /\ combat'.playerTurn = combat.playerTurn]_vars

\* C19: in a combat whose attacks are all made on the player's turn, at
\* most one retaliation is pending at any time, and once a blow of this
\* combat has moved the round on, playerTurn is false while a retaliation
\* is pending (retaliations fire oldest first, so a single pending one is
\* then the one of this combat's last blow).
C19_TurnLockout ==
    /\ timers <= 1
    /\ (combat # NULL /\ combat.round > 1 /\ timers = 1) => ~combat.playerTurn

\* the largest integer not above 1.2 times the strength, and never below 1
Retaliation(strength) ==
    LET q == CHOOSE n \in 0..(2 * strength) : 5 * n <= 6 * strength /\ 6 * strength < 5 * n + 5
    IN  IF q < 1 THEN 1 ELSE q

RECURSIVE RosterDamage(_, _)
RosterDamage(enemies, n) ==
    IF n = 0 THEN 0
    ELSE Retaliation(enemies[n].stats.strength) + RosterDamage(enemies, n - 1)

\* C20: a retaliation that fires while a combat is active works on the store
\* as it is then: the character loses the summed damage of the roster of that
\* moment (never falling below 0 health) and keeps every other field as it
\* was just before, and the combat gets playerTurn true with its roster and
\* round as they were just before.
C20_RetaliationFromCurrentState ==
    [][(last'.op = "enemyTurn" /\ combat # NULL /\ character # NULL) =>
          /\ character' =
                 [character EXCEPT !.health =
                     Max(0, character.health
                            - RosterDamage(combat.enemies, Len(combat.enemies)))]
          /\ combat' = [combat EXCEPT !.playerTurn = TRUE]]_vars

\* a blow, then an item picked up or used, then the retaliation of a roster
\* of two
C20_Witness ==
    /\ last.op = "enemyTurn" /\ timers = 0 /\ appended = 2
    /\ combat # NULL /\ combat.playerTurn /\ combat.round = 2
    /\ Len(combat.enemies) = 2
    /\ character.health > 0 /\ character.health < character.maxHealth

\* the entries of a roster that are not at position i and have health left,
\* in their order, from position k on
RECURSIVE Survivors(_, _, _)
Survivors(enemies, i, k) ==
    IF k > Len(enemies) THEN <<>>
    ELSE IF k = i \/ enemies[k].health <= 0
         THEN Survivors(enemies, i, k + 1)
         ELSE <<enemies[k]>> \o Survivors(enemies, i, k + 1)

\* C21: an attack that brings its target's health to 0 while another enemy
\* has health left ends with a combat whose roster is the old roster without
\* the target and without any other entry of health 0, the rest unchanged
\* and in order, with playerTurn true, and with no retaliation scheduled.
C21_LethalBlowKeepsTurn ==
    [][AttackOnRoster =>
         LET i == findIndex(combat.enemies, last'.enemyId)
             damage == calculateDamage(character.stats.strength,
                                       character.stats.dexterity, FALSE, last'.roll)
             rest == Survivors(combat.enemies, i, 1)
         IN  (combat.enemies[i].health - damage <= 0 /\ rest # <<>>) =>
                /\ combat' # NULL
                /\ combat'.enemies = rest
                /\ combat'.playerTurn
                /\ timers' = timers]_vars

\* the rat of <<rat, ogre>> fell to a blow, the ogre is left untouched, the
\* turn is the player's and no retaliation is pending
C21_Witness ==
    /\ last.op = "attackEnemy"
    /\ last.enemyId = "rat"
    /\ combat # NULL
    /\ combat.enemies = <<ogre>>
    /\ combat.playerTurn
    /\ timers = 0

\* the step is a blow of attackEnemy that leaves its target alive
NonLethalBlow ==
    /\ last'.op = "attackEnemy"
    /\ LeavesAlive(last'.enemyId, last'.roll)

\* C22: the round of a combat is 1 plus the number of blows of that combat
\* that left their target alive: it is 1 when the combat starts, a blow that
\* leaves its target alive adds 1, and a killing blow that leaves the combat
\* going, a retaliation and a move without encounter leave it as it is.
C22_RoundCounter ==
    /\ [](combat # NULL => combat.round = 1 + last.blows)
    /\ [][/\ (last'.op = "startCombat" => combat'.round = 1)
           /\ (combat # NULL /\ combat' # NULL
                 /\ last'.op \in {"attackEnemy", "enemyTurn"}) =>
                  combat'.round = IF NonLethalBlow THEN combat.round + 1
                                  ELSE combat.round]_vars

\* a combat in its second round after the blow that killed the rat: the
\* blow before it left the ogre alive and counted, the kill did not
C22_Witness ==
    /\ last.op = "attackEnemy"
    /\ last.enemyId = "rat"
    /\ last.blows = 1
    /\ combat # NULL
    /\ combat.round = 2
    /\ Len(combat.enemies) = 1
    /\ combat.enemies[1].id = "ogre"
    /\ combat.enemies[1].health < ogre.health

\* the state a blow of attackEnemy leaves when its target is still alive:
\* a combat on the enemies' turn
AfterNonLethalBlow ==
    /\ last.op = "attackEnemy"
    /\ combat # NULL
    /\ ~combat.playerTurn

\* C23: when every pending retaliation fires in the end, a blow that leaves
\* its target alive is followed, sooner or later, by a state with no combat
\* or with playerTurn true.
C23_EnemyTurnEnds ==
    AfterNonLethalBlow ~> (combat = NULL \/ combat.playerTurn)

\* the step is a useItem that finds a usable entry first among those of its id
UseItemSucceeds ==
    /\ last'.op = "useItem"
    /\ character # NULL
    /\ FirstWithId(character.inventory, last'.itemId) # 0
    /\ character.inventory[FirstWithId(character.inventory, last'.itemId)].usable

\* the magnitudes of the first k effects that heal the character, added up
RECURSIVE SelfHeal(_, _)
SelfHeal(effects, k) ==
    IF k = 0 THEN 0
    ELSE SelfHeal(effects, k - 1)
         + (IF effects[k].type = "heal" /\ effects[k].target = "self"
            THEN effects[k].amount ELSE 0)

\* C24: a useItem that succeeds leaves the health at the health before plus
\* the magnitudes of all the item's self-heal effects, capped at maxHealth.
C24_HealsAddUp ==
    [][UseItemSucceeds =>
         LET item == character.inventory[FirstWithId(character.inventory, last'.itemId)]
         IN  character'.health =
                Min(character.maxHealth,
                    character.health + SelfHeal(item.effects, Len(item.effects)))]_vars

\* the sequence without its entry at position i
WithoutEntry(seq, i) == SubSeq(seq, 1, i - 1) \o SubSeq(seq, i + 1, Len(seq))

\* C25: a useItem that succeeds leaves the inventory as it was but for the
\* entry used, the first of its id: every other entry, those of the same id
\* included, stays, in order.
C25_ConsumesOneEntry ==
    [][UseItemSucceeds =>
         character'.inventory =
            WithoutEntry(character.inventory,
                         FirstWithId(character.inventory, last'.itemId))]_vars

\* C26: attackEnemy issued without a combat, without a character or with a
\* character of health 0 leaves the combat (roster, round, turn) and the log
\* as they were and schedules no retaliation.
C26_AttackNeedsLiveCharacter ==
    [][(/\ last'.op = "attackEnemy"
        /\ (combat = NULL \/ character = NULL \/ character.health <= 0)) =>
          /\ combat' = combat
          /\ gameLog' = gameLog
          /\ timers' = timers]_vars

\* C27: a retaliation that leaves the character with health 0 appends the
\* entry of the enemies' attack and after it, as the last entry of the log,
\* a defeat entry of type system, and nothing else follows from the defeat:
\* the combat stays, with the roster and the round it had and with
\* playerTurn true.
C27_DefeatIsOnlyLogged ==
    [][(/\ last'.op = "enemyTurn"
        /\ combat # NULL
        /\ character # NULL
        /\ character'.health = 0) =>
          /\ Len(gameLog') = Len(gameLog) + 2
          /\ IsPrefix(gameLog, gameLog')
          /\ gameLog'[Len(gameLog')] =
                [text |-> "You have been defeated", type |-> "system"]
          /\ combat' # NULL
          /\ combat'.inCombat
          /\ combat'.enemies = combat.enemies
          /\ combat'.round = combat.round
          /\ combat'.playerTurn]_vars

\* the ogre's retaliation has taken a character that had health to 0: the
\* defeat is the last entry of the log and the combat is on the player's turn
C27_Witness ==
    /\ last.op = "enemyTurn"
    /\ character # NULL
    /\ character.health = 0
    /\ gameLog # <<>>
    /\ gameLog[Len(gameLog)].type = "system"
    /\ combat # NULL
    /\ combat.playerTurn
    /\ combat.round = 2
    /\ Len(combat.enemies) = 2

\* C28: no roster entry ever has negative health; a blow of attackEnemy that
\* leaves its target alive takes its damage, floor(1.5 * strength) + roll,
\* from the health of the target and changes nothing else in the roster and
\* nothing in the character; a blow that kills its target and leaves the
\* combat going leaves in the roster only entries that were in it, other than
\* the target, as they were.
C28_BlowHitsItsTargetOnly ==
    /\ [](combat # NULL =>
             \A k \in 1 .. Len(combat.enemies) : combat.enemies[k].health >= 0)
    /\ [][AttackOnRoster =>
             LET i == FirstWithId(combat.enemies, last'.enemyId)
                 damage == FloorOneAndHalf(character.stats.strength) + last'.roll
                 health == combat.enemies[i].health
             IN  IF health - damage > 0
                 THEN /\ combat' # NULL
                      /\ combat'.enemies =
                            [combat.enemies EXCEPT ![i].health = health - damage]
                      /\ character' = character
                 ELSE combat' # NULL =>
                        \A k \in 1 .. Len(combat'.enemies) :
                           \E j \in (1 .. Len(combat.enemies)) \ {i} :
                              combat'.enemies[k] = combat.enemies[j]]_vars

\* the ogre of <<rat, ogre>> has taken a blow and has health left, the rat
\* beside it is as it was, and the retaliation is still to come
C28_Witness ==
    /\ last.op = "attackEnemy"
    /\ last.enemyId = "ogre"
    /\ timers = 1
    /\ combat # NULL
    /\ Len(combat.enemies) = 2
    /\ combat.enemies[1] = rat
    /\ combat.enemies[2].health > 0
    /\ combat.enemies[2].health < ogre.health
    /\ character # NULL
    /\ character.health = character.maxHealth

\* C29: startCombat(enemies) puts in the place of whatever combat there was
\* a combat with inCombat true, playerTurn true, round 1, an empty combat log
\* and a roster equal to the list given, entry by entry and in its order, and
\* appends one entry, of type combat, to the game log.
C29_StartCombat ==
    [][last'.op = "startCombat" =>
          /\ combat' = [inCombat |-> TRUE, enemies |-> last'.enemies,
                        playerTurn |-> TRUE, round |-> 1, combatLog |-> <<>>]
          /\ Len(gameLog') = Len(gameLog) + 1
          /\ IsPrefix(gameLog, gameLog')
          /\ gameLog'[Len(gameLog')].type = "combat"]_vars

\* a combat with the rat and the ogre has been started over a combat in
\* which a blow had been struck, whose retaliation is still pending
C29_Witness ==
    /\ last.op = "startCombat"
    /\ last.enemies = <<rat, ogre>>
    /\ timers = 1
    /\ appended = 2
    /\ combat # NULL
    /\ combat.enemies = <<rat, ogre>>
    /\ combat.round = 1
    /\ combat.playerTurn

\* the entries of type narrative among the entries of a log after position k
NarrativeAfter(log, k) == {n \in (k + 1) .. Len(log) : log[n].type = "narrative"}

\* C30: a moveToLocation to a location of the catalog makes that location
\* the current one, appends to the log exactly one entry of type narrative,
\* right behind the entries there were, and leaves the character as it was;
\* it changes the combat only at a location with enemies, and then to a
\* combat whose roster is the whole enemy list of the location; at a location
\* without enemies the combat is left as it was.
C30_MoveToLocation ==
    [][(last'.op = "moveToLocation" /\ last'.locationId \in DOMAIN catalog) =>
          LET location == catalog[last'.locationId]
          IN  /\ currentLocation' = location
              /\ character' = character
              /\ IsPrefix(gameLog, gameLog')
              /\ NarrativeAfter(gameLog', Len(gameLog)) = {Len(gameLog) + 1}
              /\ combat' # combat =>
                    /\ location.enemies # <<>>
                    /\ combat' # NULL
                    /\ combat'.enemies = location.enemies
              /\ location.enemies = <<>> => combat' = combat]_vars

\* the character has walked from an encounter with the forest's wolf to the
\* village, which has no enemies: the combat with the wolf is still there
C30_Witness ==
    /\ last.op = "moveToLocation"
    /\ last.locationId = "village"
    /\ currentLocation # NULL
    /\ currentLocation.id = "village"
    /\ character # NULL
    /\ combat # NULL
    /\ combat.enemies = <<wolf1>>

\* C31: moveToLocation asks of its target only that it is an id of the
\* catalog: whatever the current location and its connections, with or
\* without a character, in or out of combat, a move to a catalog id makes
\* that location the current one, and a move to any other id leaves the
\* current location as it was.
C31_MoveNeedsCatalogIdOnly ==
    [][last'.op = "moveToLocation" =>
          IF last'.locationId \in DOMAIN catalog
          THEN /\ currentLocation' # NULL
               /\ currentLocation'.id = last'.locationId
          ELSE currentLocation' = currentLocation]_vars

\* with no character, and in the combat of an encounter, the session has
\* gone from the village straight to the crypt, which the village is not
\* connected to
C31_Witness ==
    /\ last.op = "moveToLocation"
    /\ last.locationId = "crypt"
    /\ character = NULL
    /\ combat # NULL
    /\ visitedLocations = <<"village", "crypt">>
    /\ currentLocation # NULL
    /\ currentLocation.id = "crypt"
    /\ \A k \in 1 .. Len(catalog["village"].connections) :
          catalog["village"].connections[k] # "crypt"

\* C32: startNewGame with a character makes the village the current
\* location, has the village in the visited list afterwards, leaves the
\* combat as it was, and appends two entries to the log: that of the move
\* and, last, the opening narrative. Without a character it changes nothing.
C32_StartNewGame ==
    [][last'.op = "startNewGame" =>
          IF character = NULL
          THEN program' = program
          ELSE /\ currentLocation' = catalog["village"]
               /\ \E k \in 1 .. Len(visitedLocations') :
                     visitedLocations'[k] = "village"
               /\ combat' = combat
               /\ gameLog' = gameLog \o
                     <<[text |-> "You have moved", type |-> "narrative"],
                       [text |-> "Your adventure begins", type |-> "narrative"]>>]_vars

\* a new game has been started in the middle of the combat of a forest
\* encounter: the character is in the village and the combat with the wolf
\* is as it was
C32_Witness ==
    /\ last.op = "startNewGame"
    /\ character # NULL
    /\ currentLocation # NULL
    /\ currentLocation.id = "village"
    /\ visitedLocations = <<"forest", "village">>
    /\ combat # NULL
    /\ combat.enemies = <<wolf1>>
    /\ gameLog[Len(gameLog)].text = "Your adventure begins"

\* C33: isLoading does not stay true: once the requests in flight have
\* settled, the effect has run and the timers have fired, it is false again,
\* whichever handler set it and whatever the action type was.
C33_LockReleased ==
    isLoading ~> ~isLoading

\* C34: between commands every enemy of the roster has health above 0 (the
\* combats are started with enemies that have): an enemy brought to 0 is out
\* of the roster when attackEnemy is over.
C34_RosterAlive ==
    combat # NULL =>
       \A k \in 1 .. Len(combat.enemies) : combat.enemies[k].health > 0

\* the ogre of <<rat, ogre>> has fallen to the second blow it took: the
\* combat goes on with the rat alone
C34_Witness ==
    /\ last.op = "attackEnemy"
    /\ last.enemyId = "ogre"
    /\ combat # NULL
    /\ combat.enemies = <<rat>>
    /\ combat.round = 2

\* C35: loadGame leaves the combat and the pending retaliations as they
\* were; a retaliation that fires right after a load, with a combat under
\* way, takes the summed damage of the roster from the health of the
\* character that was loaded and gives the turn back to the player.
C35_LoadLeavesCombat ==
    [][/\ last'.op = "loadGame" => (combat' = combat /\ timers' = timers)
       /\ (/\ last.op = "loadGame" /\ last'.op = "enemyTurn"
           /\ storage # NULL /\ storage.character[1] # "null"
           /\ combat # NULL) =>
              /\ character' =
                     [parseCharacter(storage.character) EXCEPT !.health =
                         Max(0, @ - RosterDamage(combat.enemies,
                                                 Len(combat.enemies)))]
              /\ combat' = [combat EXCEPT !.playerTurn = TRUE]]_vars

\* a Warrior is saved, a Mage made in its place attacks the wolf, the game
\* is loaded while the wolf's retaliation is pending, and the retaliation
\* hits the Warrior
C35_Witness ==
    /\ last.op = "enemyTurn" /\ last.after.op = "loadGame"
    /\ last.after.replaced # NULL /\ last.after.replaced.class = "Mage"
    /\ character # NULL /\ character.class = "Warrior"
    /\ character.health < character.maxHealth
    /\ combat # NULL /\ combat.playerTurn /\ timers = 0

\* C36: every id in the visited list is the id of a catalog location, and a
\* current location, when there is one, has its id in the visited list.
C36_VisitedAreCatalogIds ==
    /\ \A k \in 1 .. Len(visitedLocations) :
          visitedLocations[k] \in DOMAIN locations
    /\ currentLocation # NULL =>
          /\ currentLocation # ObjectMethod
          /\ includes(visitedLocations, currentLocation.id)

====
